---------------------------- MODULE Spec2Model ----------------------------
(***************************************************************************)
(* Template expansion engine of the carbon report generator                *)
(* (src/src/word_renderer.py, src/src/word_blocks.py).                      *)
(*                                                                         *)
(* The document body is a sequence of block-level elements, paragraphs and *)
(* tables.  doc.paragraphs is the subsequence of the paragraphs, and the   *)
(* code addresses paragraphs by their 0-based index in that subsequence;   *)
(* the model keeps the 0-based indices of the source.  The text of a       *)
(* paragraph is a sequence of tokens: a token is a marker, a placeholder,  *)
(* a blank or a piece of literal text, so that "marker in text",           *)
(* "text.strip() == marker" and "text.replace(placeholder, value)" are     *)
(* computed as the code computes them.                                     *)
(***************************************************************************)
EXTENDS Integers, Sequences, FiniteSets, TLC

VARIABLES doc, ctx, tpl, pc, stack

vars == <<doc, ctx, tpl, pc, stack>>

(***************************************************************************)
(* Bounds of the model.                                                    *)
(***************************************************************************)
MaxLots == 3
MaxPostes == 3
MaxTail == 1
MaxSiblings == 2
MaxCopies == 2
MaxParagraphs == 4

(***************************************************************************)
(* Program constants.                                                      *)
(***************************************************************************)
DefaultTopN == 4

(***************************************************************************)
(* Tokens.                                                                 *)
(***************************************************************************)
WS == " "

START_LOT == "[[START_LOT]]"
END_LOT == "[[END_LOT]]"
START_ACTIVITY == "[[START_ACTIVITY]]"
END_ACTIVITY == "[[END_ACTIVITY]]"
START_POST == "[[START_POST]]"
END_POST == "[[END_POST]]"
START_OTHER_POST == "[[START_OTHER_POST]]"
END_OTHER_POST == "[[END_OTHER_POST]]"

Markers ==
    {START_LOT, END_LOT, START_ACTIVITY, END_ACTIVITY,
     START_POST, END_POST, START_OTHER_POST, END_OTHER_POST}

\* Placeholder tokens that the templates of the model use.
Placeholders ==
    {"{{annee}}", "{{ORG_NAME}}", "{{ORG_LOGO}}", "{{LOT_NAME}}",
     "{{ENT_ACTIVITY}}", "{{kpi_m3_lot_act}}",
     "{{chart_pie_scope_entity_activity}}", "{{chart_pie_postes_entity_activity}}",
     "{{POST_TITLE}}", "{{POST_TEXT}}", "{{POST_CHART_1}}", "{{POST_TABLE_1}}",
     "{{POST_IMAGE_1}}", "{{OTHER_POST_TITLE}}",
     "{{chart_emissions_scope_org}}", "{{chart_emissions_total_org}}",
     "{{chart_contrib_lot}}", "{{UNKNOWN_1}}"}

\* The placeholder tokens that match the pattern ^\{\{[A-Z_0-9]+\}\}$ of
\* _clean_empty_placeholders: those whose name has no lower-case letter.
UpperCasePlaceholders ==
    {"{{ORG_NAME}}", "{{ORG_LOGO}}", "{{LOT_NAME}}", "{{ENT_ACTIVITY}}",
     "{{POST_TITLE}}", "{{POST_TEXT}}", "{{POST_CHART_1}}", "{{POST_TABLE_1}}",
     "{{POST_IMAGE_1}}", "{{OTHER_POST_TITLE}}", "{{UNKNOWN_1}}"}

None == <<>>
NoIdx == -1

Min(a, b) == IF a < b THEN a ELSE b

(***************************************************************************)
(* Document model (python-docx): elements, doc.paragraphs, doc.tables.     *)
(* A table is modelled by the paragraph of one cell.  pic is the picture   *)
(* embedded in the paragraph (or cell), rows the number of rows of a table.*)
(***************************************************************************)
NoPic == <<>>

Para(t) == [kind |-> "p", text |-> t, pic |-> NoPic, rows |-> 0]
Tbl(t) == [kind |-> "t", text |-> t, pic |-> NoPic, rows |-> 1]

Idx(n) == [i \in 1..n |-> i]

\* Body positions (1-based) of the paragraphs, in document order.
ParaPos(body) == SelectSeq(Idx(Len(body)), LAMBDA j : body[j].kind = "p")

\* Body positions of the tables (doc.tables).
TablePos(body) == SelectSeq(Idx(Len(body)), LAMBDA j : body[j].kind = "t")

\* len(doc.paragraphs)
NPar(body) == Len(ParaPos(body))

\* Body position of doc.paragraphs[i] (i is 0-based).
PosOf(body, i) == ParaPos(body)[i + 1]

\* doc.paragraphs[i].text
ParText(body, i) == body[PosOf(body, i)].text

(***************************************************************************)
(* Text operations of Python on token sequences.                           *)
(***************************************************************************)
\* marker in text
Contains(text, tok) == \E i \in 1..Len(text) : text[i] = tok

RECURSIVE LStrip(_)
LStrip(text) ==
    IF text # <<>> /\ Head(text) = WS THEN LStrip(Tail(text)) ELSE text

RECURSIVE RStrip(_)
RStrip(text) ==
    IF text # <<>> /\ text[Len(text)] = WS
    THEN RStrip(SubSeq(text, 1, Len(text) - 1))
    ELSE text

\* text.strip()
Strip(text) == RStrip(LStrip(text))

\* Faulty variant of text.replace: text.replace(placeholder, value, 1)
StrReplaceFirst(text, placeholder, value) ==
    LET hits == {i \in 1..Len(text) : text[i] = placeholder}
        first == CHOOSE i \in hits : \A k \in hits : i <= k
    IN  IF hits = {} THEN text
        ELSE SubSeq(text, 1, first - 1) \o value \o SubSeq(text, first + 1, Len(text))

\* text.replace(placeholder, value)
RECURSIVE StrReplace(_, _, _)
StrReplace(text, placeholder, value) ==
    IF text = <<>> THEN <<>>
    ELSE IF Head(text) = placeholder
         THEN value \o StrReplace(Tail(text), placeholder, value)
         ELSE <<Head(text)>> \o StrReplace(Tail(text), placeholder, value)

\* for placeholder, value in replacements.items(): text = text.replace(...)
\* A replacement map is the sequence of its (placeholder, value) items in
\* insertion order.
RECURSIVE ReplaceAll(_, _)
ReplaceAll(text, replacements) ==
    IF replacements = <<>> THEN text
    ELSE ReplaceAll(StrReplace(text, Head(replacements)[1], Head(replacements)[2]),
                    Tail(replacements))


\* [p.text for p in doc.paragraphs]
ParTexts(body) == [i \in 1..NPar(body) |-> body[ParaPos(body)[i]].text]

(***************************************************************************)
(* Marker locators.                                                        *)
(***************************************************************************)
\* BlockProcessor.find_block: the loop over all the paragraphs.  A START
\* seen before the END overwrites the recorded one.
find_block_loop(ps, start_marker, end_marker, i, start_idx) ==
    LET loop[k \in Int, s \in Int] ==
            IF k >= Len(ps) THEN None
            ELSE IF Contains(Strip(ps[k + 1]), start_marker)
                 THEN loop[k + 1, k]
            ELSE IF Contains(Strip(ps[k + 1]), end_marker) /\ s # NoIdx
                 THEN <<s, k>>
            ELSE loop[k + 1, s]
    IN  loop[i, start_idx]

find_block(body, start_marker, end_marker) ==
    find_block_loop(ParTexts(body), start_marker, end_marker, 0, NoIdx)

\* The scan "for i in range(i, stop)" shared by _find_block_in_range and by
\* the four _find_all_*_blocks: the first START is kept, the first END after
\* it ends the scan.
scan_block(ps, start_marker, end_marker, i, stop, start_idx) ==
    LET scan[k \in Int, s \in Int] ==
            IF k >= stop THEN None
            ELSE IF Contains(Strip(ps[k + 1]), start_marker) /\ s = NoIdx
                 THEN scan[k + 1, k]
            ELSE IF Contains(Strip(ps[k + 1]), end_marker) /\ s # NoIdx
                 THEN <<s, k>>
            ELSE scan[k + 1, s]
    IN  scan[i, start_idx]

\* Faulty variant of _find_block_in_range: a START marker without its END
\* marker is paired with the end of the range.
find_block_open_end(body, start_marker, end_marker, parent_start, parent_end) ==
    LET ps == ParTexts(body)
        stop == Min(parent_end + 1, Len(ps))
        b == scan_block(ps, start_marker, end_marker, parent_start, stop, NoIdx)
        starts == {i \in parent_start..(stop - 1) : Contains(Strip(ps[i + 1]), start_marker)}
    IN  IF b # None \/ starts = {} THEN b
        ELSE <<CHOOSE i \in starts : \A k \in starts : i <= k, stop - 1>>

find_block_in_range(body, start_marker, end_marker, parent_start, parent_end) ==
    LET ps == ParTexts(body)
    IN  scan_block(ps, start_marker, end_marker, parent_start,
                   Min(parent_end + 1, Len(ps)), NoIdx)

\* The while loop of the _find_all_*_blocks: limit is the bound of the while
\* condition and of the inner range (both min(parent_end, len(paragraphs)),
\* or len(paragraphs) for the LOT rank).
find_all_loop(ps, start_marker, end_marker, current_idx, limit) ==
    LET loop[idx \in Int] ==
            IF idx >= limit THEN <<>>
            ELSE LET b == scan_block(ps, start_marker, end_marker, idx, limit, NoIdx)
                 IN  IF b = None THEN <<>>
                     ELSE <<b>> \o loop[b[2] + 1]
    IN  loop[current_idx]

find_all_lot_blocks(body) ==
    LET ps == ParTexts(body)
    IN  find_all_loop(ps, START_LOT, END_LOT, 0, Len(ps))

find_all_activity_blocks(body, parent_start, parent_end) ==
    LET ps == ParTexts(body)
    IN  find_all_loop(ps, START_ACTIVITY, END_ACTIVITY, parent_start,
                      Min(parent_end, Len(ps)))

find_all_post_blocks(body, parent_start, parent_end) ==
    LET ps == ParTexts(body)
    IN  find_all_loop(ps, START_POST, END_POST, parent_start,
                      Min(parent_end, Len(ps)))

find_all_other_post_blocks(body, parent_start, parent_end) ==
    LET ps == ParTexts(body)
    IN  find_all_loop(ps, START_OTHER_POST, END_OTHER_POST, parent_start,
                      Min(parent_end, Len(ps)))

\* _find_marker_index(marker, start_idx) with end_idx = None
find_marker_loop(ps, marker, i) ==
    LET loop[k \in Int] ==
            IF k >= Len(ps) THEN NoIdx
            ELSE IF Contains(ps[k + 1], marker) THEN k
            ELSE loop[k + 1]
    IN  loop[i]

find_marker_index(body, marker, start_idx) ==
    find_marker_loop(ParTexts(body), marker, start_idx)

(***************************************************************************)
(* Structural mutations.                                                   *)
(***************************************************************************)
\* Body positions of doc.paragraphs[start_idx..end_idx] (those < len).
BlockPositions(body, start_idx, end_idx) ==
    {PosOf(body, i) : i \in {k \in start_idx..end_idx : k >= 0 /\ k < NPar(body)}}

\* The elements of body at the positions of the set S, in document order.
Restrict(body, S) == SelectSeq(Idx(Len(body)), LAMBDA j : j \in S)

Elements(body, S) == [k \in 1..Len(Restrict(body, S)) |-> body[Restrict(body, S)[k]]]

RECURSIVE Repeat(_, _)
Repeat(seq, n) == IF n <= 0 THEN <<>> ELSE seq \o Repeat(seq, n - 1)

\* Faulty variant of duplicate_block: the clones are appended to the body.
duplicate_block_append(body, start_idx, end_idx, n_copies) ==
    body \o Repeat(Elements(body, BlockPositions(body, start_idx, end_idx)), n_copies)

\* BlockProcessor.duplicate_block: block_elements holds the paragraphs of
\* indices start_idx..end_idx (the tables lying between them are not in
\* doc.paragraphs and are not cloned); the clones are chained after the END
\* paragraph.
duplicate_block(body, start_idx, end_idx, n_copies) ==
    LET block_elements == Elements(body, BlockPositions(body, start_idx, end_idx))
        insert_after == PosOf(body, end_idx)
    IN  SubSeq(body, 1, insert_after)
        \o Repeat(block_elements, n_copies)
        \o SubSeq(body, insert_after + 1, Len(body))

\* WordRenderer._delete_block: removes the paragraphs of indices
\* start_idx..end_idx from the body.
delete_block(body, start_idx, end_idx) ==
    Elements(body, (1..Len(body)) \ BlockPositions(body, start_idx, end_idx))

\* Faulty variant of _is_element_in_range: the END element is not compared.
in_range_from_start(element_pos, start_pos, end_pos) ==
    start_pos <= element_pos

\* BlockProcessor._is_element_in_range, on body positions
is_element_in_range(element_pos, start_pos, end_pos) ==
    start_pos <= element_pos /\ element_pos <= end_pos

\* Faulty variant of replace_in_block: every element of the document is
\* resolved.
replace_in_document(body, start_idx, end_idx, replacements) ==
    [j \in 1..Len(body) |-> [body[j] EXCEPT !.text = ReplaceAll(@, replacements)]]

\* BlockProcessor.replace_in_block: 1. the paragraphs start_idx..end_idx,
\* 2. the cells of the tables lying between the two paragraphs in the body
\* (skipped when an index is out of the paragraph list).
replace_in_block(body, start_idx, end_idx, replacements) ==
    LET n == NPar(body)
        inPars == BlockPositions(body, start_idx, end_idx)
        tablesToo == ~(start_idx >= n \/ end_idx >= n)
        hit(j) ==
            \/ j \in inPars
            \/ /\ tablesToo
               /\ body[j].kind = "t"
               /\ is_element_in_range(j, PosOf(body, start_idx), PosOf(body, end_idx))
    IN  [j \in 1..Len(body) |->
            IF hit(j)
            THEN [body[j] EXCEPT !.text = ReplaceAll(@, replacements)]
            ELSE body[j]]

\* BlockProcessor.remove_block_markers
remove_block_markers(body, start_marker, end_marker) ==
    SelectSeq(body, LAMBDA e :
        ~(e.kind = "p" /\ (Strip(e.text) = <<start_marker>> \/ Strip(e.text) = <<end_marker>>)))

\* WordRenderer._clean_all_markers
clean_all_markers(body) ==
    remove_block_markers(
        remove_block_markers(
            remove_block_markers(
                remove_block_markers(body, START_OTHER_POST, END_OTHER_POST),
                START_POST, END_POST),
            START_ACTIVITY, END_ACTIVITY),
        START_LOT, END_LOT)

\* re.match(r'^\{\{[A-Z_0-9]+\}\}$', text) on the stripped text
MatchesBarePlaceholder(text) ==
    Len(text) = 1 /\ text[1] \in UpperCasePlaceholders

\* Faulty variant of _clean_empty_placeholders: the pass does nothing while
\* the document holds a marker paragraph.
clean_placeholders_without_markers(body) ==
    IF \E j \in 1..Len(body) :
          body[j].kind = "p" /\ \E m \in Markers : Strip(body[j].text) = <<m>>
    THEN body
    ELSE SelectSeq(body, LAMBDA e : ~(e.kind = "p" /\ MatchesBarePlaceholder(Strip(e.text))))

\* Faulty variant of _clean_empty_placeholders: bare placeholders are kept.
clean_no_placeholders(body) == body

\* WordRenderer._clean_empty_placeholders
clean_empty_placeholders(body) ==
    SelectSeq(body, LAMBDA e : ~(e.kind = "p" /\ MatchesBarePlaceholder(Strip(e.text))))

(***************************************************************************)
(* Image and table injection.                                              *)
(***************************************************************************)
\* paragraph.clear(); run.add_picture(img_buffer)
WithPicture(e, img) == [e EXCEPT !.text = <<>>, !.pic = img]

FirstPos(body, positions, placeholder) ==
    LET hits == SelectSeq(positions, LAMBDA j : Contains(body[j].text, placeholder))
    IN  IF hits = <<>> THEN 0 ELSE hits[1]

\* WordRenderer._insert_image: the first paragraph of the whole document that
\* contains the placeholder, else the first table cell that does.
insert_image(body, placeholder, img) ==
    LET p == FirstPos(body, ParaPos(body), placeholder)
        t == FirstPos(body, TablePos(body), placeholder)
        j == IF p # 0 THEN p ELSE t
    IN  IF j = 0 THEN body ELSE [body EXCEPT ![j] = WithPicture(@, img)]

\* WordRenderer._insert_image_in_range
insert_image_in_range(body, placeholder, img, start_idx, end_idx) ==
    LET pp == ParaPos(body)
        stop == Min(end_idx + 1, Len(pp))
        range == IF start_idx + 1 > stop THEN <<>> ELSE SubSeq(pp, start_idx + 1, stop)
        j == FirstPos(body, range, placeholder)
    IN  IF j = 0 THEN body ELSE [body EXCEPT ![j] = WithPicture(@, img)]

(***************************************************************************)
(* The rendering context: tree, aggregates (lot_results), catalog.         *)
(*   has_lots   context['has_lots']                                        *)
(*   lot_acts   lot_acts[l] = tree.get_lot_activities of the l-th LOT of   *)
(*              tree.get_lots()                                            *)
(*   org_acts   tree.get_org_activities()                                  *)
(*   missing    the entity keys <<parent, activity>> that lot_results      *)
(*              lacks (parent 0 is the organisation, key 'ORG_<activity>') *)
(*   nTop, nOther  the lengths of top_postes and other_postes, by activity *)
(*   top_n      context['top_n']                                           *)
(*   org_result whether context['org_result'] is set                       *)
(*   catalog    what the content catalog gives for a poste                 *)
(*   l2         whether EMISSIONS_L2 has rows for the postes               *)
(***************************************************************************)
ORG == 0
Activities == {"AEP", "EU"}

\* Faulty variant of sorted(list(activities)): descending order of the codes
SortedDescending(activities) == SelectSeq(<<"EU", "AEP">>, LAMBDA a : a \in activities)

\* sorted(list(activities))
Sorted(activities) == SelectSeq(<<"AEP", "EU">>, LAMBDA a : a \in activities)

LotNames == <<"Lot A", "Lot B", "Lot C", "Lot D">>
OrgName == "Org"

\* activity_label = "Eau potable" if activity == "AEP" else "Eaux usées"
ActivityLabel(activity) == IF activity = "AEP" THEN "Eau potable" ELSE "Eaux usees"

PosteCodes ==
    [a \in Activities |->
        IF a = "AEP" THEN <<"A1", "A2", "A3", "A4">> ELSE <<"E1", "E2", "E3", "E4">>]
OtherPosteCodes ==
    [a \in Activities |->
        IF a = "AEP" THEN <<"AO1", "AO2", "AO3", "AO4">> ELSE <<"EO1", "EO2", "EO3", "EO4">>]

\* lot_results.get(entity_key) is not None
HasResult(c, parent, activity) == <<parent, activity>> \notin c.missing

\* result.top_postes and result.other_postes of the entity
top_postes(c, activity) == SubSeq(PosteCodes[activity], 1, c.nTop[activity])
other_postes(c, activity) == SubSeq(OtherPosteCodes[activity], 1, c.nOther[activity])

\* The aggregate has emissions: the scope values and emissions_by_poste are
\* those of its postes (EmissionCalculator._aggregate_emissions).
HasEmissions(c, activity) == c.nTop[activity] + c.nOther[activity] > 0

\* Faulty variant of the lookup: the activities of the whole organisation
\* for every parent.
OrgActivities(c, parent) == c.org_acts

\* activities looked up by _process_activity_blocks for a parent
ParentActivities(c, parent) ==
    IF c.has_lots /\ parent # ORG THEN c.lot_acts[parent] ELSE c.org_acts

\* seq[:n]
Prefix(seq, n) == SubSeq(seq, 1, Min(n, Len(seq)))

(***************************************************************************)
(* Replacement maps built by the renderer.                                 *)
(***************************************************************************)
\* WordRenderer._build_simple_replacements (the entries whose placeholders
\* the templates of the model use)
simple_replacements(c) ==
    <<<<"{{annee}}", <<"2024">>>>>>
    \o (IF c.org_result THEN <<<<"{{ORG_NAME}}", <<OrgName>>>>>> ELSE <<>>)

lot_replacements(lot) == <<<<"{{LOT_NAME}}", <<LotNames[lot]>>>>>>

activity_replacements(activity) ==
    <<<<"{{ENT_ACTIVITY}}", <<ActivityLabel(activity)>>>>,
      <<"{{kpi_m3_lot_act}}", <<"N/A">>>>>>

\* content.text if content and hasattr(content, 'text') else ''
post_text(c, code) == IF c.catalog = "none" THEN <<>> ELSE <<"text of", code>>

post_replacements(c, code) ==
    <<<<"{{POST_TITLE}}", <<code>>>>,
      <<"{{POST_TEXT}}", post_text(c, code)>>>>

other_post_replacements(c, code) ==
    <<<<"{{OTHER_POST_TITLE}}", <<code>>>>>>

\* WordRenderer._replace_simple_placeholders with _replace_in_paragraph:
\* every paragraph and every table cell of the document
replace_simple_placeholders(body, c) ==
    [j \in 1..Len(body) |->
        [body[j] EXCEPT !.text = ReplaceAll(@, simple_replacements(c))]]

(***************************************************************************)
(* render() as a state machine.  pc is the step of render() that runs      *)
(* next; during block expansion (pc = "expand") stack holds the pending    *)
(* calls and loop iterations of the orchestrator, the next one first.  A   *)
(* loop "for i in range(max_idx, -1, -1)" pushes its iterations with the   *)
(* extents recorded by the rescan, the last instance first.                *)
(***************************************************************************)
Task(op, i, bs, be, parent, activity) ==
    [op |-> op, i |-> i, bs |-> bs, be |-> be, parent |-> parent, activity |-> activity]

\* Faulty variant of the loop: the iterations in the order 0, ..., max_idx.
RECURSIVE IterationsForward(_, _, _, _, _)
IterationsForward(op, all_blocks, i, parent, activity) ==
    IF i < 0 THEN <<>>
    ELSE IterationsForward(op, all_blocks, i - 1, parent, activity)
         \o <<Task(op, i, all_blocks[i + 1][1], all_blocks[i + 1][2], parent, activity)>>

\* The iterations i = max_idx, ..., 0 of a loop over the rescanned blocks.
RECURSIVE Iterations(_, _, _, _, _)
Iterations(op, all_blocks, i, parent, activity) ==
    IF i < 0 THEN <<>>
    ELSE <<Task(op, i, all_blocks[i + 1][1], all_blocks[i + 1][2], parent, activity)>>
         \o Iterations(op, all_blocks, i - 1, parent, activity)

\* Faulty variant of the end of the expansion: _process_lot_blocks never
\* returns.
AfterExpandNever(st) == "expand"

\* Faulty variant of the end of the expansion: the marker cleanup starts
\* while iterations are pending.
AfterExpandEarly(st) == "clean_markers"

\* pc after a step of the expansion: the marker cleanup follows the return
\* of _process_lot_blocks.
AfterExpand(st) == IF st = <<>> THEN "clean_markers" ELSE "expand"

\* render(): 1. self._replace_simple_placeholders(context)
ReplaceSimplePlaceholders ==
    /\ pc = "simple"
    /\ doc' = replace_simple_placeholders(doc, ctx)
    /\ pc' = "logo"
    /\ UNCHANGED <<ctx, tpl, stack>>

\* render(): 1.5 self._insert_static_logo(); the asset file exists or not
InsertStaticLogo ==
    /\ pc = "logo"
    /\ \E exists \in (IF \E j \in 1..Len(doc) : Contains(doc[j].text, "{{ORG_LOGO}}")
                      THEN BOOLEAN ELSE {FALSE}) :
          doc' = IF exists THEN insert_image(doc, "{{ORG_LOGO}}", <<"logo">>) ELSE doc
    /\ pc' = "lots"
    /\ UNCHANGED <<ctx, tpl, stack>>

\* WordRenderer._process_org_activity_blocks
process_org_activity_blocks(body) ==
    IF find_block(body, START_ACTIVITY, END_ACTIVITY) = None
    THEN <<>>
    ELSE <<Task("act_blocks", 0, 0, NPar(body), ORG, "")>>

\* render(): 2. self._process_lot_blocks(context), up to its loop
ProcessLotBlocks ==
    /\ pc = "lots"
    /\ \E block_info \in {find_block(doc, START_LOT, END_LOT)},
          n \in {Len(ctx.lot_acts)} :
       \E dup \in {IF n > 1 /\ block_info # None
                   THEN duplicate_block(doc, block_info[1], block_info[2], n - 1)
                   ELSE doc} :
       \E all_lot_blocks \in {find_all_lot_blocks(dup)} :
       LET iter(i) == IF i < Len(all_lot_blocks)
                      THEN <<Task("lot_inst", i, all_lot_blocks[i + 1][1],
                                  all_lot_blocks[i + 1][2], i + 1, "")>>
                      ELSE <<>>
           loop[i \in -1..(n - 1)] == IF i < 0 THEN <<>> ELSE iter(i) \o loop[i - 1]
       IN  IF ~ctx.has_lots
           THEN /\ doc' = doc
                /\ stack' = process_org_activity_blocks(doc)
           ELSE IF block_info = None
           THEN /\ doc' = doc
                /\ stack' = <<>>
           ELSE IF n = 0
           THEN /\ doc' = delete_block(doc, block_info[1], block_info[2])
                /\ stack' = <<>>
           ELSE /\ doc' = dup
                /\ stack' = loop[n - 1]
    /\ pc' = AfterExpand(stack')
    /\ UNCHANGED <<ctx, tpl>>

\* One iteration of the loop of _process_lot_blocks, up to the call of
\* _process_activity_blocks
LotInstance ==
    /\ pc = "expand" /\ stack # <<>> /\ Head(stack).op = "lot_inst"
    /\ LET t == Head(stack)
       IN  /\ doc' = replace_in_block(doc, t.bs, t.be, lot_replacements(t.parent))
           /\ stack' = <<Task("act_blocks", 0, t.bs, t.be, t.parent, "")>> \o Tail(stack)
    /\ pc' = "expand"
    /\ UNCHANGED <<ctx, tpl>>

\* WordRenderer._process_activity_blocks, up to its loop
ProcessActivityBlocks ==
    /\ pc = "expand" /\ stack # <<>> /\ Head(stack).op = "act_blocks"
    /\ \E t \in {Head(stack)} :
       \E activities_list \in {Sorted(ParentActivities(ctx, t.parent))},
          block_info \in {find_block_in_range(doc, START_ACTIVITY, END_ACTIVITY, t.bs, t.be)} :
       \E n \in {Len(activities_list)} :
       \E dup \in {IF n > 1 /\ block_info # None
                   THEN duplicate_block(doc, block_info[1], block_info[2], n - 1)
                   ELSE doc} :
       \E refreshed_end \in {find_marker_index(dup, END_LOT, t.bs)} :
       \E parent_end_idx \in
               {IF ctx.has_lots /\ t.parent # ORG /\ refreshed_end # NoIdx
                THEN refreshed_end ELSE t.be} :
       \E all_activity_blocks \in {find_all_activity_blocks(dup, t.bs, parent_end_idx)} :
       LET max_idx == Min(n, Len(all_activity_blocks)) - 1
           loop[i \in -1..max_idx] ==
               IF i < 0 THEN <<>>
               ELSE <<Task("act_inst", i, all_activity_blocks[i + 1][1],
                           all_activity_blocks[i + 1][2], t.parent,
                           activities_list[i + 1])>> \o loop[i - 1]
       IN  IF n = 0
           THEN /\ doc' = IF block_info = None THEN doc
                          ELSE delete_block(doc, block_info[1], block_info[2])
                /\ stack' = Tail(stack)
           ELSE IF block_info = None
           THEN /\ doc' = doc
                /\ stack' = Tail(stack)
           ELSE /\ doc' = dup
                /\ stack' = loop[max_idx] \o Tail(stack)
    /\ pc' = AfterExpand(stack')
    /\ UNCHANGED <<ctx, tpl>>

\* One iteration of the loop of _process_activity_blocks, up to the call of
\* _process_post_blocks; "if not result: continue"
ActivityInstance ==
    /\ pc = "expand" /\ stack # <<>> /\ Head(stack).op = "act_inst"
    /\ LET t == Head(stack)
       IN  IF ~HasResult(ctx, t.parent, t.activity)
           THEN /\ doc' = doc
                /\ stack' = Tail(stack)
           ELSE /\ doc' = replace_in_block(doc, t.bs, t.be, activity_replacements(t.activity))
                /\ stack' = <<Task("post_blocks", 0, t.bs, t.be, t.parent, t.activity),
                              Task("act_rest", t.i, t.bs, t.be, t.parent, t.activity)>>
                            \o Tail(stack)
    /\ pc' = AfterExpand(stack')
    /\ UNCHANGED <<ctx, tpl>>

\* WordRenderer._process_post_blocks, up to its loop
ProcessPostBlocks ==
    /\ pc = "expand" /\ stack # <<>> /\ Head(stack).op = "post_blocks"
    /\ \E t \in {Head(stack)} :
       \E result_top \in {top_postes(ctx, t.activity)},
          block_info \in {find_block_in_range(doc, START_POST, END_POST, t.bs, t.be)} :
       \E top \in {Prefix(result_top, ctx.top_n)} :
       \E n \in {Len(top)} :
       \E dup \in {IF n > 1 /\ block_info # None
                   THEN duplicate_block(doc, block_info[1], block_info[2], n - 1)
                   ELSE doc} :
       \E refreshed_end \in {find_marker_index(dup, END_ACTIVITY, t.bs)} :
       \E parent_end_idx \in {IF refreshed_end # NoIdx THEN refreshed_end ELSE t.be} :
       \E all_post_blocks \in {find_all_post_blocks(dup, t.bs, parent_end_idx)} :
       LET max_idx == Min(n, Len(all_post_blocks)) - 1
       IN  IF ~HasResult(ctx, t.parent, t.activity) \/ result_top = <<>>
           THEN /\ doc' = IF block_info = None THEN doc
                          ELSE delete_block(doc, block_info[1], block_info[2])
                /\ stack' = Tail(stack)
           ELSE IF block_info = None
           THEN /\ doc' = doc
                /\ stack' = Tail(stack)
           ELSE /\ doc' = dup
                /\ stack' = Iterations("post_inst", all_post_blocks, max_idx,
                                       t.parent, t.activity) \o Tail(stack)
    /\ pc' = "expand"
    /\ UNCHANGED <<ctx, tpl>>

(***************************************************************************)
(* Injection inside a POST instance.                                       *)
(***************************************************************************)
\* content.chart_key / table_key / image_key are set and supported
HasChartKey(c) == c.catalog \in {"chart", "all"}
HasTableKey(c) == c.catalog \in {"table", "all"}
HasImageKey(c) == c.catalog \in {"image", "all"}

\* WordRenderer._find_paragraph_in_range: body position of the paragraph, 0
\* when there is none
find_paragraph_in_range(body, placeholder, start_idx, end_idx) ==
    LET pp == ParaPos(body)
        stop == Min(end_idx + 1, Len(pp))
        range == IF start_idx + 1 > stop THEN <<>> ELSE SubSeq(pp, start_idx + 1, stop)
    IN  FirstPos(body, range, placeholder)

\* The table built by _insert_table_after_paragraph (rows=0, cols=2) and
\* filled by TableGenerator.generate_table, or left without rows when the
\* generator raises.
NewTable(filled) ==
    [kind |-> "t", text |-> IF filled THEN <<"Sous-categorie">> ELSE <<>>,
     pic |-> NoPic, rows |-> IF filled THEN 2 ELSE 0]

\* Faulty variant of _insert_post_table: the anchor paragraph is kept before
\* the new table.
insert_post_table_keep_anchor(body, c, block_start, block_end, filled) ==
    LET j == find_paragraph_in_range(body, "{{POST_TABLE_1}}", block_start, block_end)
    IN  IF ~c.l2 \/ j = 0 THEN body
        ELSE SubSeq(body, 1, j) \o <<NewTable(filled)>> \o SubSeq(body, j + 1, Len(body))

\* WordRenderer._insert_post_table with block_start and block_end given:
\* the table is inserted after the anchor paragraph, the anchor is deleted,
\* then the table is filled inside try/except.
insert_post_table(body, c, block_start, block_end, filled) ==
    LET j == find_paragraph_in_range(body, "{{POST_TABLE_1}}", block_start, block_end)
    IN  IF ~c.l2 \/ j = 0 THEN body
        ELSE [body EXCEPT ![j] = NewTable(filled)]

\* WordRenderer._insert_post_content: chart, then table, then image, all
\* with the block_start and block_end received by the call.
insert_post_content(body, c, block_start, block_end, code, chart, filled, asset) ==
    LET d1 == IF HasChartKey(c) /\ c.l2 /\ chart
              THEN insert_image_in_range(body, "{{POST_CHART_1}}", <<"post_chart", code>>,
                                         block_start, block_end)
              ELSE body
        d2 == IF HasTableKey(c)
              THEN insert_post_table(d1, c, block_start, block_end, filled)
              ELSE d1
        d3 == IF HasImageKey(c) /\ asset
              THEN insert_image_in_range(d2, "{{POST_IMAGE_1}}", <<"post_image", code>>,
                                         block_start, block_end)
              ELSE d2
    IN  IF c.catalog = "none" THEN body ELSE d3

\* One iteration of the loop of _process_post_blocks.  chart: the chart
\* backend returns an image (it returns None or raises otherwise, both give
\* no chart); filled: the table backend fills the table (it raises
\* otherwise); asset: the image file exists.
PostInstance ==
    /\ pc = "expand" /\ stack # <<>> /\ Head(stack).op = "post_inst"
    /\ LET t == Head(stack)
           code == top_postes(ctx, t.activity)[t.i + 1]
           resolved == replace_in_block(doc, t.bs, t.be, post_replacements(ctx, code))
       IN  \E chart \in (IF HasChartKey(ctx) /\ ctx.l2 THEN BOOLEAN ELSE {FALSE}),
              filled \in (IF HasTableKey(ctx) /\ ctx.l2 THEN BOOLEAN ELSE {FALSE}),
              asset \in (IF HasImageKey(ctx) THEN BOOLEAN ELSE {FALSE}) :
              doc' = insert_post_content(resolved, ctx, t.bs, t.be, code, chart, filled, asset)
    /\ stack' = Tail(stack)
    /\ pc' = "expand"
    /\ UNCHANGED <<ctx, tpl>>

\* The rest of an iteration of _process_activity_blocks: the refresh of
\* block_end, then _process_other_post_blocks up to its loop; the call of
\* _insert_entity_charts follows the loop.
ActivityRest ==
    /\ pc = "expand" /\ stack # <<>> /\ Head(stack).op = "act_rest"
    /\ \E t \in {Head(stack)} :
       \E refreshed \in {find_marker_index(doc, END_ACTIVITY, t.bs)} :
       \E block_end \in {IF refreshed # NoIdx THEN refreshed ELSE t.be},
          other \in {other_postes(ctx, t.activity)} :
       \E block_info \in {find_block_in_range(doc, START_OTHER_POST, END_OTHER_POST,
                                              t.bs, block_end)},
          n \in {Len(other)} :
       \E dup \in {IF n > 1 /\ block_info # None
                   THEN duplicate_block(doc, block_info[1], block_info[2], n - 1)
                   ELSE doc} :
       \E refreshed_end \in {find_marker_index(dup, END_ACTIVITY, t.bs)} :
       \E parent_end_idx \in {IF refreshed_end # NoIdx THEN refreshed_end ELSE block_end} :
       \E all_other_post_blocks \in {find_all_other_post_blocks(dup, t.bs, parent_end_idx)} :
       LET max_idx == Min(n, Len(all_other_post_blocks)) - 1
           charts == <<Task("entity_charts", t.i, t.bs, block_end, t.parent, t.activity)>>
       IN  IF n = 0
           THEN /\ doc' = IF block_info = None THEN doc
                          ELSE delete_block(doc, block_info[1], block_info[2])
                /\ stack' = charts \o Tail(stack)
           ELSE IF block_info = None
           THEN /\ doc' = doc
                /\ stack' = charts \o Tail(stack)
           ELSE /\ doc' = dup
                /\ stack' = Iterations("other_inst", all_other_post_blocks, max_idx,
                                       t.parent, t.activity) \o charts \o Tail(stack)
    /\ pc' = "expand"
    /\ UNCHANGED <<ctx, tpl>>

\* One iteration of the loop of _process_other_post_blocks
OtherPostInstance ==
    /\ pc = "expand" /\ stack # <<>> /\ Head(stack).op = "other_inst"
    /\ LET t == Head(stack)
           code == other_postes(ctx, t.activity)[t.i + 1]
       IN  doc' = replace_in_block(doc, t.bs, t.be, other_post_replacements(ctx, code))
    /\ stack' = Tail(stack)
    /\ pc' = "expand"
    /\ UNCHANGED <<ctx, tpl>>

\* WordRenderer._insert_entity_charts.  The chart generators return None
\* for an aggregate without emissions; when they draw, they return the image
\* or raise, and nothing in render() catches what they raise.
InsertEntityCharts ==
    /\ pc = "expand" /\ stack # <<>> /\ Head(stack).op = "entity_charts"
    /\ LET t == Head(stack)
           draws == HasResult(ctx, t.parent, t.activity) /\ HasEmissions(ctx, t.activity)
           d1 == insert_image(doc, "{{chart_pie_scope_entity_activity}}",
                              <<"scope", t.parent, t.activity>>)
           d2 == insert_image(d1, "{{chart_pie_postes_entity_activity}}",
                              <<"postes", t.parent, t.activity>>)
       IN  \E outcome \in (IF draws THEN {"ok", "raise_scope", "raise_postes"} ELSE {"none"}) :
              /\ doc' = CASE outcome = "ok" -> d2
                          [] outcome = "raise_postes" -> d1
                          [] OTHER -> doc
              /\ stack' = IF outcome \in {"ok", "none"} THEN Tail(stack) ELSE stack
              /\ pc' = IF outcome \in {"ok", "none"} THEN AfterExpand(Tail(stack)) ELSE "raised"
    /\ UNCHANGED <<ctx, tpl>>

(***************************************************************************)
(* The steps of render() after the expansion.                              *)
(***************************************************************************)
\* render(): 2.5 self._clean_all_markers()
CleanAllMarkers ==
    /\ pc = "clean_markers"
    /\ doc' = clean_all_markers(doc)
    /\ pc' = "org_charts"
    /\ UNCHANGED <<ctx, tpl, stack>>

\* The activities of the ENT nodes of the tree
TreeActivities(c) ==
    IF Len(c.lot_acts) > 0
    THEN UNION {c.lot_acts[l] : l \in 1..Len(c.lot_acts)}
    ELSE c.org_acts

\* org_result has emissions (generate_scope_pie returns None otherwise)
OrgHasEmissions(c) == \E a \in TreeActivities(c) : HasEmissions(c, a)

\* lot_totals is not empty in _insert_org_charts
HasLotTotals(c) ==
    \E l \in 1..Len(c.lot_acts) : \E a \in c.lot_acts[l] :
        HasResult(c, l, a) /\ HasEmissions(c, a)

\* The insertions that end _insert_org_charts, in the order of the dict
insert_org_charts(body, c) ==
    LET d1 == IF OrgHasEmissions(c)
              THEN insert_image(body, "{{chart_emissions_scope_org}}", <<"scope_org">>)
              ELSE body
        d2 == IF OrgHasEmissions(c)
              THEN insert_image(d1, "{{chart_emissions_total_org}}", <<"total_org">>)
              ELSE d1
        d3 == IF HasLotTotals(c)
              THEN insert_image(d2, "{{chart_contrib_lot}}", <<"contrib_lot">>)
              ELSE d2
    IN  d3

\* render(): 3. self._insert_org_charts(context).  The generators are called
\* before any insertion; what they raise leaves render().
InsertOrgCharts ==
    /\ pc = "org_charts"
    /\ \E outcome \in (IF ctx.org_result /\ OrgHasEmissions(ctx)
                       THEN {"ok", "raise"} ELSE {"ok"}) :
          /\ doc' = IF ctx.org_result /\ outcome = "ok"
                    THEN insert_org_charts(doc, ctx) ELSE doc
          /\ pc' = IF outcome = "ok" THEN "clean_placeholders" ELSE "raised"
    /\ UNCHANGED <<ctx, tpl, stack>>

\* render(): 4. self._clean_empty_placeholders(); return self.doc
CleanEmptyPlaceholders ==
    /\ pc = "clean_placeholders"
    /\ doc' = clean_empty_placeholders(doc)
    /\ pc' = "done"
    /\ UNCHANGED <<ctx, tpl, stack>>

(***************************************************************************)
(* Templates.  A template is described by its features:                    *)
(*   lot          the LOT block surrounds the ACTIVITY block               *)
(*   posts        the ACTIVITY block holds a POST and an OTHER_POST block  *)
(*   tables       tables stand inside the blocks and outside every block   *)
(*   marker_text  the START marker paragraphs carry a note after the marker*)
(*   anchors      the POST block holds the chart, table and image anchors  *)
(*   tail         number of paragraphs after the last block                *)
(***************************************************************************)
StartMarker(t, marker) ==
    IF t.marker_text THEN Para(<<marker, WS, "note">>) ELSE Para(<<marker>>)

EndMarker(marker) == Para(<<marker, WS>>)

When(cond, seq) == IF cond THEN seq ELSE <<>>

PostBlock(t) ==
    <<StartMarker(t, START_POST), Para(<<"Poste", WS, "{{POST_TITLE}}">>)>>
    \o When(t.anchors, <<Para(<<"{{POST_TEXT}}">>), Para(<<"{{POST_CHART_1}}">>),
                         Para(<<"{{POST_TABLE_1}}">>), Para(<<"{{POST_IMAGE_1}}">>)>>)
    \o When(t.tables, <<Tbl(<<"{{POST_TITLE}}">>)>>)
    \o <<EndMarker(END_POST)>>

OtherPostBlock(t) ==
    <<StartMarker(t, START_OTHER_POST), Para(<<"{{OTHER_POST_TITLE}}">>)>>
    \o When(t.tables, <<Tbl(<<"{{OTHER_POST_TITLE}}">>)>>)
    \o <<EndMarker(END_OTHER_POST)>>

ActivityBlock(t) ==
    <<StartMarker(t, START_ACTIVITY), Para(<<"Activite", WS, "{{ENT_ACTIVITY}}">>),
      Para(<<"{{chart_pie_scope_entity_activity}}">>)>>
    \o When(t.tables, <<Tbl(<<"{{ENT_ACTIVITY}}", WS, "{{LOT_NAME}}">>)>>)
    \o When(t.posts, PostBlock(t) \o OtherPostBlock(t))
    \o <<EndMarker(END_ACTIVITY)>>

LotBlock(t) ==
    <<StartMarker(t, START_LOT), Para(<<"{{LOT_NAME}}">>)>>
    \o When(t.tables, <<Tbl(<<"{{LOT_NAME}}">>)>>)
    \o ActivityBlock(t)
    \o <<EndMarker(END_LOT)>>

Template(t) ==
    <<Para(<<"{{ORG_NAME}}", WS, "{{annee}}">>), Para(<<"{{chart_emissions_scope_org}}">>)>>
    \o When(t.tables, <<Tbl(<<"{{ORG_NAME}}", WS, "{{LOT_NAME}}", WS, "{{ENT_ACTIVITY}}">>)>>)
    \o (IF t.lot THEN LotBlock(t) ELSE ActivityBlock(t))
    \o When(t.tables, <<Tbl(<<"{{ENT_ACTIVITY}}", WS, "{{POST_TITLE}}">>)>>)
    \o [k \in 1..t.tail |-> Para(<<"fin">>)]

Tpl(lot, posts, tables, marker_text, anchors, tail) ==
    [lot |-> lot, posts |-> posts, tables |-> tables, marker_text |-> marker_text,
     anchors |-> anchors, tail |-> tail]

\* Templates that differ in their block structure and in what follows it
StructureTemplates ==
    {Tpl(lot, posts, FALSE, FALSE, FALSE, tail) :
        lot \in BOOLEAN, posts \in BOOLEAN, tail \in 0..MaxTail}

\* Templates with tables inside and outside the blocks
TableTemplates == {Tpl(lot, TRUE, TRUE, FALSE, FALSE, 0) : lot \in BOOLEAN}

\* Templates whose START marker paragraphs carry a note
NoteTemplates == {Tpl(lot, TRUE, FALSE, TRUE, FALSE, 0) : lot \in BOOLEAN}

\* Templates with the anchors of the POST content
AnchorTemplates == {Tpl(lot, TRUE, FALSE, FALSE, TRUE, 1) : lot \in BOOLEAN}

(***************************************************************************)
(* Contexts.                                                               *)
(***************************************************************************)
Trees ==
    {[has_lots |-> FALSE, lot_acts |-> <<>>, org_acts |-> A] : A \in SUBSET Activities}
    \cup {[has_lots |-> TRUE, lot_acts |-> la,
           org_acts |-> UNION {la[l] : l \in 1..Len(la)}] :
            la \in UNION {[1..n -> SUBSET Activities] : n \in 0..MaxLots}}

SmallTrees == {t \in Trees : Len(t.lot_acts) <= 1}

\* The postes of the aggregates: r ranked and s residual postes for AEP, s
\* ranked and r residual postes for EU.
PosteCounts ==
    {[nTop |-> [a \in Activities |-> IF a = "AEP" THEN r ELSE s],
      nOther |-> [a \in Activities |-> IF a = "AEP" THEN s ELSE r]] :
        r \in 0..MaxPostes, s \in 0..MaxPostes}

Context(tree, counts, missing, top_n, org_result, catalog, l2) ==
    [has_lots |-> tree.has_lots, lot_acts |-> tree.lot_acts, org_acts |-> tree.org_acts,
     nTop |-> counts.nTop, nOther |-> counts.nOther, missing |-> missing,
     top_n |-> top_n, org_result |-> org_result, catalog |-> catalog, l2 |-> l2]

\* The entity keys that _process_activity_blocks looks up
EntityKeys(tree) ==
    IF tree.has_lots
    THEN {<<l, a>> : l \in 1..Len(tree.lot_acts), a \in Activities}
            \cap {k \in (1..MaxLots) \X Activities : k[2] \in tree.lot_acts[k[1]]}
    ELSE {<<ORG, a>> : a \in tree.org_acts}

\* Contexts as the calculators build them: an aggregate for every entity,
\* top_postes cut at the top_n of the context.
CompleteContexts(trees, counts) ==
    {Context(tree, c, {}, DefaultTopN, TRUE, "none", FALSE) : tree \in trees, c \in counts}

\* Contexts built by hand: one aggregate missing, a smaller top_n, no
\* org_result.
PartialContexts(trees, counts) ==
    UNION {
        {Context(tree, c, {k}, DefaultTopN, TRUE, "none", FALSE) : k \in EntityKeys(tree)}
        \cup {Context(tree, c, {}, n, TRUE, "none", FALSE) : n \in {0, 1}}
        \cup {Context(tree, c, {}, DefaultTopN, FALSE, "none", FALSE)}
        : tree \in trees, c \in counts}

\* Contexts whose top_n is smaller than the top_n the aggregates were
\* computed with
SmallTopNContexts(trees, counts) ==
    {Context(tree, c, {}, 1, TRUE, "none", FALSE) : tree \in trees, c \in counts}

\* Contexts with a content catalog
CatalogContexts(trees, counts) ==
    {Context(tree, c, {}, DefaultTopN, TRUE, catalog, l2) :
        tree \in trees, c \in counts,
        catalog \in {"text", "chart", "table", "image", "all"}, l2 \in BOOLEAN}

FewPostes == {c \in PosteCounts : c.nTop["AEP"] <= 1 /\ c.nOther["AEP"] <= 1}

OnePoste == {c \in PosteCounts : c.nTop["AEP"] = 1 /\ c.nOther["AEP"] = 1}

TwoRanked == {c \in PosteCounts : c.nTop["AEP"] = 2 /\ c.nOther["AEP"] = 1}

\* Well-formed templates rendered with the contexts the calculators build:
\* every poste count on the small trees, every tree with one poste per rank,
\* the templates with tables.
CompleteScenarios ==
    ({t \in StructureTemplates : t.posts} \X CompleteContexts(SmallTrees, PosteCounts))
    \cup (StructureTemplates \X CompleteContexts(Trees, OnePoste))
    \cup (TableTemplates \X CompleteContexts(SmallTrees, FewPostes))

Scenarios ==
    CompleteScenarios
    \cup (NoteTemplates \X CompleteContexts(SmallTrees, OnePoste))
    \cup (StructureTemplates \X PartialContexts(SmallTrees, OnePoste))
    \cup (AnchorTemplates \X CatalogContexts(SmallTrees, OnePoste))
    \cup (AnchorTemplates \X CatalogContexts(SmallTrees, TwoRanked))
    \cup (AnchorTemplates \X CompleteContexts(SmallTrees, OnePoste))
    \cup ({t \in StructureTemplates : t.posts} \X SmallTopNContexts(SmallTrees, TwoRanked))

Start(scenarios) ==
    /\ \E sc \in scenarios :
          /\ tpl = sc[1]
          /\ ctx = sc[2]
          /\ doc = Template(sc[1])
    /\ pc = "simple"
    /\ stack = <<>>

Init == Start(Scenarios)

InitComplete == Start(CompleteScenarios)

Next ==
    \/ ReplaceSimplePlaceholders
    \/ InsertStaticLogo
    \/ ProcessLotBlocks
    \/ LotInstance
    \/ ProcessActivityBlocks
    \/ ActivityInstance
    \/ ProcessPostBlocks
    \/ PostInstance
    \/ ActivityRest
    \/ OtherPostInstance
    \/ InsertEntityCharts
    \/ CleanAllMarkers
    \/ InsertOrgCharts
    \/ CleanEmptyPlaceholders

Spec == Init /\ [][Next]_vars

\* render() on the contexts the calculators build
SpecComplete == InitComplete /\ [][Next]_vars

(***************************************************************************)
(* Reading the rendered document: the instances of a block type are the    *)
(* extents between the paragraphs whose trimmed text is the START and the  *)
(* END marker of the type.                                                 *)
(***************************************************************************)
\* 0-based indices of the paragraphs whose trimmed text is the marker
MarkerIdx(body, marker) ==
    SelectSeq([i \in 1..NPar(body) |-> i - 1],
              LAMBDA i : Strip(ParText(body, i)) = <<marker>>)

\* The sibling instances of a type in document order: k-th START, k-th END
Instances(body, start_marker, end_marker) ==
    LET s == MarkerIdx(body, start_marker)
        e == MarkerIdx(body, end_marker)
    IN  [k \in 1..Min(Len(s), Len(e)) |-> <<s[k], e[k]>>]

\* The instances of a type that lie inside the extent b
InstancesIn(body, start_marker, end_marker, b) ==
    SelectSeq(Instances(body, start_marker, end_marker),
              LAMBDA x : b[1] < x[1] /\ x[2] < b[2])

\* Number of paragraphs of indices lo..hi whose text is text
CountText(body, lo, hi, text) ==
    Cardinality({i \in lo..hi : i >= 0 /\ i < NPar(body) /\ ParText(body, i) = text})

\* The lines the templates of the model give to an instance of each rank
LotLine(lot) == <<LotNames[lot]>>
ActivityLine(activity) == <<"Activite", WS, ActivityLabel(activity)>>
PostLine(code) == <<"Poste", WS, code>>
OtherPostLine(code) == <<code>>

\* The first line of the instance b
FirstLine(body, b) == ParText(body, b[1] + 1)

Expanded == pc = "clean_markers"
Rendered == pc = "done"

\* The i-th instance of the sequence inst carries the i-th line of lines
Carries(body, inst, lines) ==
    /\ Len(inst) = Len(lines)
    /\ \A i \in 1..Len(inst) : FirstLine(body, inst[i]) = lines[i]

(***************************************************************************)
(* C1.  After render() no paragraph of the document has a text containing  *)
(* a block marker, for every template and every context.                   *)
(***************************************************************************)
C1_NoMarkerLeft ==
    Rendered =>
        \A i \in 0..(NPar(doc) - 1) : \A m \in Markers : ~Contains(ParText(doc, i), m)

(***************************************************************************)
(* C2.  After render() no paragraph of the document has a trimmed text     *)
(* that is exactly one placeholder token, whatever data or chart was       *)
(* unavailable.                                                            *)
(***************************************************************************)
C2_NoOrphanPlaceholder ==
    Rendered =>
        \A i \in 0..(NPar(doc) - 1) :
            ~(Len(Strip(ParText(doc, i))) = 1 /\ Strip(ParText(doc, i))[1] \in Placeholders)

\* The (parent, activity) entities of the ACTIVITY instances in document
\* order: the activities of each LOT in turn, or those of the organisation.
RECURSIVE LotEntities(_, _)
LotEntities(c, l) ==
    IF l > Len(c.lot_acts) THEN <<>>
    ELSE [j \in 1..Len(Sorted(c.lot_acts[l])) |-> <<l, Sorted(c.lot_acts[l])[j]>>]
         \o LotEntities(c, l + 1)

Entities(c) ==
    IF c.has_lots THEN LotEntities(c, 1)
    ELSE [j \in 1..Len(Sorted(c.org_acts)) |-> <<ORG, Sorted(c.org_acts)[j]>>]

\* The template and the context put the rendering in the case the
\* cardinality claims are about: marker paragraphs that hold the marker
\* alone, an aggregate for every entity, the LOT block present when the
\* context has LOTs.
WellFormedCase ==
    /\ ~tpl.marker_text
    /\ ctx.missing = {}
    /\ ctx.has_lots => tpl.lot

(***************************************************************************)
(* C3.  Cardinality law.  Once the expansion is over, for a context of     *)
(* k >= 1 entities at a rank the parent holds exactly k instances of the   *)
(* block and the i-th instance in document order carries the values of the *)
(* i-th entity: the LOT instances of the document, the ACTIVITY instances  *)
(* of each LOT instance, the POST and OTHER_POST instances of each         *)
(* ACTIVITY instance.                                                      *)
(***************************************************************************)
LotCardinality ==
    LET lots == Instances(doc, START_LOT, END_LOT)
    IN  Len(ctx.lot_acts) >= 1 =>
            Carries(doc, lots, [i \in 1..Len(ctx.lot_acts) |-> LotLine(i)])

ActivityCardinality ==
    LET lots == Instances(doc, START_LOT, END_LOT)
    IN  \A i \in 1..Min(Len(lots), Len(ctx.lot_acts)) :
            LET acts == Sorted(ctx.lot_acts[i])
            IN  Len(acts) >= 1 =>
                    Carries(doc, InstancesIn(doc, START_ACTIVITY, END_ACTIVITY, lots[i]),
                            [j \in 1..Len(acts) |-> ActivityLine(acts[j])])

PosteCardinality ==
    LET acts == Instances(doc, START_ACTIVITY, END_ACTIVITY)
        ents == Entities(ctx)
    IN  \A k \in 1..Min(Len(acts), Len(ents)) :
            LET a == ents[k][2]
                top == Prefix(top_postes(ctx, a), ctx.top_n)
                other == other_postes(ctx, a)
            IN  /\ Len(top) >= 1 =>
                     Carries(doc, InstancesIn(doc, START_POST, END_POST, acts[k]),
                             [j \in 1..Len(top) |-> PostLine(top[j])])
                /\ Len(other) >= 1 =>
                     Carries(doc, InstancesIn(doc, START_OTHER_POST, END_OTHER_POST, acts[k]),
                             [j \in 1..Len(other) |-> OtherPostLine(other[j])])

C3_CardinalityLaw ==
    (Expanded /\ WellFormedCase) =>
        /\ ctx.has_lots => (LotCardinality /\ ActivityCardinality)
        /\ tpl.posts => PosteCardinality

(***************************************************************************)
(* C4.  Zero-instance deletion.  When the repetition context of a rank is  *)
(* empty, the step that locates the block removes every element of the     *)
(* located extent, the two markers and every paragraph and table between   *)
(* them, and leaves the elements outside the extent as they were.          *)
(***************************************************************************)
\* The extent located by the step that runs next when the repetition
\* context of its rank is empty; None for any other step
EmptyRankExtent ==
    IF pc = "lots"
    THEN IF ctx.has_lots /\ Len(ctx.lot_acts) = 0
         THEN find_block(doc, START_LOT, END_LOT) ELSE None
    ELSE IF pc = "expand" /\ stack # <<>>
    THEN LET t == Head(stack)
             refreshed == find_marker_index(doc, END_ACTIVITY, t.bs)
         IN  IF t.op = "act_blocks" /\ ParentActivities(ctx, t.parent) = {}
             THEN find_block_in_range(doc, START_ACTIVITY, END_ACTIVITY, t.bs, t.be)
             ELSE IF t.op = "post_blocks" /\ top_postes(ctx, t.activity) = <<>>
             THEN find_block_in_range(doc, START_POST, END_POST, t.bs, t.be)
             ELSE IF t.op = "act_rest" /\ other_postes(ctx, t.activity) = <<>>
             THEN find_block_in_range(doc, START_OTHER_POST, END_OTHER_POST, t.bs,
                                      IF refreshed # NoIdx THEN refreshed ELSE t.be)
             ELSE None
    ELSE None

\* The body without the elements positioned from the START paragraph to the
\* END paragraph of the extent b
WithoutExtent(body, b) ==
    Elements(body, {j \in 1..Len(body) : j < PosOf(body, b[1]) \/ j > PosOf(body, b[2])})

C4_ZeroInstanceDeletion ==
    [][EmptyRankExtent # None => doc' = WithoutExtent(doc, EmptyRankExtent)]_vars

(***************************************************************************)
(* C5.  Repetition counts are independent per branch.  With a template of  *)
(* one LOT block containing one ACTIVITY block, once the expansion is over *)
(* there is one LOT instance per LOT, each LOT instance contains as many   *)
(* ACTIVITY instances as its LOT has activities, shows its own LOT's name  *)
(* and no other LOT's name, and each activity label appears once per LOT   *)
(* that has the activity.                                                  *)
(***************************************************************************)
C5_BranchIndependence ==
    (Expanded /\ tpl.lot /\ ctx.has_lots /\ Len(ctx.lot_acts) >= 1) =>
        LET lots == Instances(doc, START_LOT, END_LOT)
        IN  /\ Len(lots) = Len(ctx.lot_acts)
            /\ Len(Instances(doc, START_ACTIVITY, END_ACTIVITY)) = Len(Entities(ctx))
            /\ \A i \in 1..Len(lots) :
                  /\ Len(InstancesIn(doc, START_ACTIVITY, END_ACTIVITY, lots[i]))
                        = Cardinality(ctx.lot_acts[i])
                  /\ FirstLine(doc, lots[i]) = LotLine(i)
                  /\ \A j \in PosOf(doc, lots[i][1])..PosOf(doc, lots[i][2]) :
                        \A l \in 1..Len(LotNames) :
                            l # i => ~Contains(doc[j].text, LotNames[l])
            /\ \A a \in Activities :
                  CountText(doc, 0, NPar(doc) - 1, ActivityLine(a))
                     = Cardinality({l \in 1..Len(ctx.lot_acts) : a \in ctx.lot_acts[l]})

\* Two LOTs with one different activity each, expanded: two LOT instances
\* and two ACTIVITY instances
C5_Witness ==
    /\ Expanded /\ tpl.lot /\ ctx.has_lots
    /\ ctx.lot_acts = <<{"AEP"}, {"EU"}>>
    /\ Len(Instances(doc, START_LOT, END_LOT)) = 2
    /\ Len(Instances(doc, START_ACTIVITY, END_ACTIVITY)) = 2

(***************************************************************************)
(* C6.  Flat topology.  When the context has no LOT level, once the        *)
(* expansion is over the document holds one ACTIVITY instance per activity *)
(* of the organisation, each resolved with the values of its own activity, *)
(* and each activity label appears exactly once, whatever precedes or      *)
(* follows the block.                                                      *)
(***************************************************************************)
C6_FlatTopology ==
    (Expanded /\ WellFormedCase /\ ~ctx.has_lots /\ ctx.org_acts # {}) =>
        LET acts == Sorted(ctx.org_acts)
        IN  /\ Carries(doc, Instances(doc, START_ACTIVITY, END_ACTIVITY),
                       [j \in 1..Len(acts) |-> ActivityLine(acts[j])])
            /\ \A a \in ctx.org_acts :
                  CountText(doc, 0, NPar(doc) - 1, ActivityLine(a)) = 1

(***************************************************************************)
(* C7.  Ranked and residual ranks expand independently.  Once the          *)
(* expansion is over, the ACTIVITY instance of an activity whose aggregate *)
(* has r ranked and s residual postes holds exactly r POST instances and   *)
(* exactly s OTHER_POST instances between its START and END markers.       *)
(***************************************************************************)
C7_RankIndependence ==
    (Expanded /\ WellFormedCase /\ tpl.posts) =>
        LET acts == Instances(doc, START_ACTIVITY, END_ACTIVITY)
            ents == Entities(ctx)
        IN  \A k \in 1..Min(Len(acts), Len(ents)) :
                /\ Len(InstancesIn(doc, START_POST, END_POST, acts[k]))
                      = ctx.nTop[ents[k][2]]
                /\ Len(InstancesIn(doc, START_OTHER_POST, END_OTHER_POST, acts[k]))
                      = ctx.nOther[ents[k][2]]

(***************************************************************************)
(* C10.  A rendering failure is never fatal: whatever a chart, table or    *)
(* image backend raises or fails to return, no exception leaves render().  *)
(***************************************************************************)
C10_NeverFatal == pc # "raised"

(***************************************************************************)
(* BlockProcessor.replace_in_block as a function of the document, the      *)
(* extent and the value map.  The documents hold sibling instances of a    *)
(* block, with or without a table inside each instance, with or without    *)
(* tables outside the instances (before, between and after them).  The     *)
(* document-level resolution may come first; then one call of              *)
(* replace_in_block is made, and made again with the same arguments.       *)
(* stack holds the call.                                                   *)
(***************************************************************************)
InsideTable == Tbl(<<"{{ENT_ACTIVITY}}", WS, "{{ENT_ACTIVITY}}", WS, "{{ORG_NAME}}">>)
OutsideTable == Tbl(<<"{{ORG_NAME}}", WS, "{{ENT_ACTIVITY}}">>)

SiblingInstance(inside) ==
    <<Para(<<START_ACTIVITY>>), Para(<<"Activite", WS, "{{ENT_ACTIVITY}}">>)>>
    \o When(inside, <<InsideTable>>)
    \o <<EndMarker(END_ACTIVITY)>>

RECURSIVE Siblings(_, _, _)
Siblings(n, inside, outside) ==
    IF n = 0 THEN <<>>
    ELSE SiblingInstance(inside) \o When(outside, <<OutsideTable>>)
         \o Siblings(n - 1, inside, outside)

ReplaceDocs ==
    {When(outside, <<OutsideTable>>) \o Siblings(n, inside, outside) :
        n \in 1..MaxSiblings, inside \in BOOLEAN, outside \in BOOLEAN}

\* Value maps: one or two items; a value is plain text or holds a
\* placeholder
MapKeys == {"{{ENT_ACTIVITY}}", "{{ORG_NAME}}"}
MapValues == {<<"Eau potable">>, <<"{{ORG_NAME}}">>, <<"{{ENT_ACTIVITY}}", "bis">>}

ValueMaps ==
    {<<<<k, v>>>> : k \in MapKeys, v \in MapValues}
    \cup {m \in {<<<<k1, v1>>, <<k2, v2>>>> :
                    k1 \in MapKeys, k2 \in MapKeys, v1 \in MapValues, v2 \in MapValues} :
                m[1][1] # m[2][1]}

InitReplace ==
    /\ doc \in ReplaceDocs
    /\ ctx \in CompleteContexts({t \in SmallTrees : ~t.has_lots /\ t.org_acts = Activities},
                                OnePoste)
    /\ tpl = Tpl(FALSE, FALSE, TRUE, FALSE, FALSE, 0)
    /\ pc \in {"doc_level", "block"}
    /\ stack = <<>>

\* self._replace_simple_placeholders(context)
ReplaceDocumentLevel ==
    /\ pc = "doc_level"
    /\ doc' = replace_simple_placeholders(doc, ctx)
    /\ pc' = "block"
    /\ UNCHANGED <<ctx, tpl, stack>>

\* processor.replace_in_block(start_idx, end_idx, replacements)
ReplaceInBlock ==
    /\ pc = "block"
    /\ \E start_idx \in 0..NPar(doc), end_idx \in 0..NPar(doc), replacements \in ValueMaps :
          /\ start_idx <= end_idx
          /\ doc' = replace_in_block(doc, start_idx, end_idx, replacements)
          /\ stack' = <<[start_idx |-> start_idx, end_idx |-> end_idx,
                         replacements |-> replacements, before |-> doc]>>
    /\ pc' = "again"
    /\ UNCHANGED <<ctx, tpl>>

\* The same call a second time
ReplaceInBlockAgain ==
    /\ pc = "again"
    /\ doc' = replace_in_block(doc, stack[1].start_idx, stack[1].end_idx,
                               stack[1].replacements)
    /\ pc' = "end"
    /\ UNCHANGED <<ctx, tpl, stack>>

NextReplace ==
    \/ ReplaceDocumentLevel
    \/ ReplaceInBlock
    \/ ReplaceInBlockAgain

SpecReplace == InitReplace /\ [][NextReplace]_vars

(***************************************************************************)
(* C8.  Table containment.  When replace_in_block resolves an instance of  *)
(* a block, the cells of every table positioned between the START and END  *)
(* markers of the instance are substituted with the values of the call,    *)
(* and no table inside a sibling instance or outside every instance is     *)
(* changed by the call; the document-level resolution gives every table    *)
(* the document-level values.                                              *)
(***************************************************************************)
\* The table at body position j lies between the markers of the extent b
TableInside(body, j, b) == PosOf(body, b[1]) < j /\ j < PosOf(body, b[2])

InstanceCall(body, call) ==
    \E k \in 1..Len(Instances(body, START_ACTIVITY, END_ACTIVITY)) :
        Instances(body, START_ACTIVITY, END_ACTIVITY)[k] = <<call.start_idx, call.end_idx>>

C8_TableContainment ==
    [][/\ (pc = "block" /\ InstanceCall(doc, stack'[1])) =>
            \A j \in 1..Len(doc) :
                doc[j].kind = "t" =>
                    IF TableInside(doc, j, <<stack'[1].start_idx, stack'[1].end_idx>>)
                    THEN doc'[j].text = ReplaceAll(doc[j].text, stack'[1].replacements)
                    ELSE doc'[j] = doc[j]
       /\ pc = "doc_level" =>
            \A j \in 1..Len(doc) :
                doc[j].kind = "t" =>
                    doc'[j].text = ReplaceAll(doc[j].text, simple_replacements(ctx))
      ]_vars

\* The first of two instances has been resolved: its table shows the value,
\* the table of the second instance and the tables outside do not
C8_Witness ==
    /\ pc = "again"
    /\ stack[1].replacements = <<<<"{{ENT_ACTIVITY}}", <<"Eau potable">>>>>>
    /\ Len(Instances(doc, START_ACTIVITY, END_ACTIVITY)) = 2
    /\ <<stack[1].start_idx, stack[1].end_idx>>
          = Instances(doc, START_ACTIVITY, END_ACTIVITY)[1]
    /\ Cardinality({j \in 1..Len(doc) :
                      doc[j].kind = "t" /\ Contains(doc[j].text, "Eau potable")}) = 1
    /\ Cardinality({j \in 1..Len(doc) :
                      doc[j].kind = "t" /\ Contains(doc[j].text, "{{ENT_ACTIVITY}}")}) = 4

(***************************************************************************)
(* C9.  Idempotent resolution.  Calling replace_in_block a second time     *)
(* with the same extent and the same value map leaves the document as the  *)
(* first call left it.                                                     *)
(***************************************************************************)
C9_Idempotent == [][pc = "again" => doc' = doc]_vars

\* No value of the map contains a placeholder that is a key of the map
ClosedMap(replacements) ==
    \A i \in 1..Len(replacements), k \in 1..Len(replacements) :
        ~Contains(replacements[i][2], replacements[k][1])

\* C9 for the value maps of which no value contains a key of the map: the
\* second call leaves the document as the first call left it.
C9_IdempotentClosedMap ==
    [][(pc = "again" /\ ClosedMap(stack[1].replacements)) => doc' = doc]_vars

\* A call with such a map has resolved placeholders of the extent, and has
\* been made a second time
C9_Witness ==
    /\ pc = "end"
    /\ ClosedMap(stack[1].replacements)
    /\ stack[1].before # doc

(***************************************************************************)
(* C11.  Data absence.  When lot_results lacks the aggregate of one         *)
(* (group, activity) entity, render() ends, every sibling ACTIVITY instance *)
(* is resolved, and the section of the missing entity is omitted: it leaves *)
(* no unresolved placeholder and no POST or OTHER_POST template content.    *)
(***************************************************************************)
\* The placeholders of the ACTIVITY, POST and OTHER_POST template content
BlockPlaceholders ==
    {"{{ENT_ACTIVITY}}", "{{POST_TITLE}}", "{{POST_TEXT}}", "{{OTHER_POST_TITLE}}"}

\* Number of LOTs whose aggregate for the activity is in lot_results
LotsWithResult(c, a) ==
    Cardinality({l \in 1..Len(c.lot_acts) : a \in c.lot_acts[l] /\ HasResult(c, l, a)})

C11_DataAbsence ==
    (Rendered /\ ~tpl.marker_text /\ tpl.lot /\ ctx.has_lots
        /\ Cardinality(ctx.missing) = 1) =>
        /\ \A j \in 1..Len(doc) : \A ph \in BlockPlaceholders :
              ~Contains(doc[j].text, ph)
        /\ \A a \in Activities :
              CountText(doc, 0, NPar(doc) - 1, ActivityLine(a)) = LotsWithResult(ctx, a)

(***************************************************************************)
(* Templates whose marker pair of one block type is not complete: no       *)
(* marker of the type at all, the START marker without its END marker, or  *)
(* the END marker without its START marker.  tpl.broken names the type and *)
(* what is left of its pair.                                               *)
(***************************************************************************)
MarkerPair ==
    [LOT |-> <<START_LOT, END_LOT>>, ACTIVITY |-> <<START_ACTIVITY, END_ACTIVITY>>,
     POST |-> <<START_POST, END_POST>>, OTHER_POST |-> <<START_OTHER_POST, END_OTHER_POST>>]

BrokenTemplate(t, type, how) ==
    LET gone == CASE how = "none" -> {MarkerPair[type][1], MarkerPair[type][2]}
                  [] how = "start_only" -> {MarkerPair[type][2]}
                  [] how = "end_only" -> {MarkerPair[type][1]}
    IN  SelectSeq(Template(t), LAMBDA e : \A m \in gone : ~Contains(e.text, m))

ShapeCounts == {c \in PosteCounts : c.nTop["AEP"] <= 2 /\ c.nOther["AEP"] <= 2}

InitShape ==
    /\ \E lot \in BOOLEAN, how \in {"none", "start_only", "end_only"},
          type \in {"LOT", "ACTIVITY", "POST", "OTHER_POST"} :
          LET t == Tpl(lot, TRUE, FALSE, FALSE, FALSE, 0)
          IN  /\ type = "LOT" => lot
              /\ tpl = t @@ [broken |-> <<type, how>>]
              /\ doc = BrokenTemplate(t, type, how)
    /\ ctx \in CompleteContexts(SmallTrees, ShapeCounts)
    /\ pc = "simple"
    /\ stack = <<>>

\* render() on the templates with an incomplete marker pair
SpecShape == InitShape /\ [][Next]_vars

(***************************************************************************)
(* C12.  Template-shape absence and structural corruption are skipped.     *)
(* When the range searched by a step holds no complete marker pair of the  *)
(* type of the step, the step changes nothing in the document and raises   *)
(* nothing; once the expansion is over, the block types that are not       *)
(* nested in the skipped block and the sibling instances are expanded.     *)
(***************************************************************************)
\* The paragraphs lo..hi hold a START marker of the pair followed by an END
\* marker of the pair
HasPair(body, pair, lo, hi) ==
    \E i \in lo..hi, j \in lo..hi :
        /\ 0 <= i /\ i < j /\ j < NPar(body)
        /\ Contains(ParText(body, i), pair[1])
        /\ Contains(ParText(body, j), pair[2])

\* The step that runs next searches a range that holds no complete pair of
\* its type
SearchesInVain ==
    \/ /\ pc = "lots"
       /\ ~HasPair(doc, IF ctx.has_lots THEN MarkerPair.LOT ELSE MarkerPair.ACTIVITY,
                   0, NPar(doc) - 1)
    \/ /\ pc = "expand" /\ stack # <<>>
       /\ LET t == Head(stack)
              refreshed == find_marker_index(doc, END_ACTIVITY, t.bs)
          IN  \/ t.op = "act_blocks" /\ ~HasPair(doc, MarkerPair.ACTIVITY, t.bs, t.be)
              \/ t.op = "post_blocks" /\ ~HasPair(doc, MarkerPair.POST, t.bs, t.be)
              \/ t.op = "act_rest"
                    /\ ~HasPair(doc, MarkerPair.OTHER_POST, t.bs,
                                IF refreshed # NoIdx THEN refreshed ELSE t.be)

C12_StepSkips == SearchesInVain => (doc' = doc /\ pc' # "raised")

\* The ranks that the incomplete pair leaves whole are expanded (LOT
\* topology, template with the LOT block)
C12_OthersExpanded ==
    (Expanded /\ ctx.has_lots /\ tpl.lot /\ Len(ctx.lot_acts) >= 1) =>
        LET type == tpl.broken[1]
            acts == Instances(doc, START_ACTIVITY, END_ACTIVITY)
            ents == Entities(ctx)
        IN  /\ type # "LOT" => LotCardinality
            /\ type \in {"POST", "OTHER_POST"} => ActivityCardinality
            /\ \A k \in 1..Min(Len(acts), Len(ents)) :
                  LET top == top_postes(ctx, ents[k][2])
                      other == other_postes(ctx, ents[k][2])
                  IN  /\ type = "OTHER_POST" =>
                            Carries(doc, InstancesIn(doc, START_POST, END_POST, acts[k]),
                                    [j \in 1..Len(top) |-> PostLine(top[j])])
                      /\ type = "POST" =>
                            Carries(doc, InstancesIn(doc, START_OTHER_POST, END_OTHER_POST,
                                                     acts[k]),
                                    [j \in 1..Len(other) |-> OtherPostLine(other[j])])

C12_ShapeSkipped ==
    [][C12_StepSkips /\ (C12_OthersExpanded)']_vars

\* One LOT with two activities, the POST block without its END marker: the
\* two ACTIVITY instances keep the POST template line, and their three
\* residual postes are expanded
C12_Witness ==
    /\ Expanded
    /\ tpl.broken = <<"POST", "start_only">>
    /\ ctx.lot_acts = <<{"AEP", "EU"}>>
    /\ Len(Instances(doc, START_ACTIVITY, END_ACTIVITY)) = 2
    /\ Len(Instances(doc, START_OTHER_POST, END_OTHER_POST)) = 3
    /\ CountText(doc, 0, NPar(doc) - 1, <<"Poste", WS, "{{POST_TITLE}}">>) = 2

(***************************************************************************)
(* BlockProcessor.duplicate_block as a function of the document, the       *)
(* extent and the number of copies.  The documents hold one ACTIVITY       *)
(* block, with or without a table and a nested POST block inside it, with  *)
(* or without paragraphs and tables before and after it.  The extent is    *)
(* the one the locator returns.  After the duplication, one of the         *)
(* instances found by the rescan is resolved by replace_in_block.  stack   *)
(* holds the call of duplicate_block, then the call of replace_in_block.   *)
(***************************************************************************)
DuplicateBlockTemplate(inside, nested) ==
    <<Para(<<START_ACTIVITY>>), Para(<<"Activite", WS, "{{ENT_ACTIVITY}}">>)>>
    \o When(inside, <<InsideTable>>)
    \o When(nested, PostBlock(Tpl(FALSE, TRUE, inside, FALSE, FALSE, 0)))
    \o <<EndMarker(END_ACTIVITY)>>

DuplicateDocs ==
    {When(before, <<Para(<<"{{ORG_NAME}}">>)>>) \o When(outside, <<OutsideTable>>)
        \o DuplicateBlockTemplate(inside, nested)
        \o When(outside, <<OutsideTable>>) \o [k \in 1..tail |-> Para(<<"fin", WS, "{{ENT_ACTIVITY}}">>)] :
        before \in BOOLEAN, outside \in BOOLEAN, inside \in BOOLEAN, nested \in BOOLEAN,
        tail \in 0..MaxTail}

InitDuplicate ==
    /\ doc \in DuplicateDocs
    /\ ctx \in CompleteContexts({t \in SmallTrees : ~t.has_lots /\ t.org_acts = Activities},
                                OnePoste)
    /\ tpl = Tpl(FALSE, FALSE, TRUE, FALSE, FALSE, 0)
    /\ pc = "duplicate"
    /\ stack = <<>>

\* processor.duplicate_block(start_idx, end_idx, n_copies) on the located
\* block
DuplicateBlock ==
    /\ pc = "duplicate"
    /\ \E n_copies \in 0..MaxCopies :
          LET block_info == find_block(doc, START_ACTIVITY, END_ACTIVITY)
          IN  /\ doc' = duplicate_block(doc, block_info[1], block_info[2], n_copies)
              /\ stack' = <<[start_idx |-> block_info[1], end_idx |-> block_info[2],
                             n_copies |-> n_copies, before |-> doc]>>
    /\ pc' = "resolve"
    /\ UNCHANGED <<ctx, tpl>>

\* processor.replace_in_block(block_start, block_end, replacements) on one
\* of the rescanned instances
ResolveInstance ==
    /\ pc = "resolve"
    /\ LET all_activity_blocks == find_all_activity_blocks(doc, 0, NPar(doc))
       IN  \E i \in 1..Len(all_activity_blocks), replacements \in ValueMaps :
              /\ doc' = replace_in_block(doc, all_activity_blocks[i][1],
                                         all_activity_blocks[i][2], replacements)
              /\ stack' = stack \o <<[start_idx |-> all_activity_blocks[i][1],
                                      end_idx |-> all_activity_blocks[i][2],
                                      replacements |-> replacements, before |-> doc]>>
    /\ pc' = "resolved"
    /\ UNCHANGED <<ctx, tpl>>

NextDuplicate ==
    \/ DuplicateBlock
    \/ ResolveInstance

SpecDuplicate == InitDuplicate /\ [][NextDuplicate]_vars

(***************************************************************************)
(* C13.  duplicate_block(start, end, c) clones every element of the extent *)
(* [start, end], the two markers and every paragraph and table positioned  *)
(* between them, c times, and inserts the clones after the END marker: the *)
(* document reads original extent, copy 1, ..., copy c, each copy equal    *)
(* element for element to the original extent, and a rescan finds c + 1    *)
(* instances.                                                              *)
(***************************************************************************)
\* The elements of the body from the paragraph start_idx to the paragraph
\* end_idx
Extent(body, start_idx, end_idx) ==
    SubSeq(body, PosOf(body, start_idx), PosOf(body, end_idx))

C13_DuplicateClones ==
    [][pc = "duplicate" =>
          LET call == stack'[1]
              last == PosOf(doc, call.end_idx)
          IN  /\ doc' = SubSeq(doc, 1, last)
                        \o Repeat(Extent(doc, call.start_idx, call.end_idx), call.n_copies)
                        \o SubSeq(doc, last + 1, Len(doc))
              /\ Len(find_all_activity_blocks(doc', 0, NPar(doc'))) = call.n_copies + 1
      ]_vars

(***************************************************************************)
(* C14.  duplicate_block leaves unchanged the content of the original      *)
(* extent, every element that precedes it and every element that followed  *)
(* its END marker, which keep their order after the inserted copies; with  *)
(* no copy to make the whole document is unchanged.                        *)
(***************************************************************************)
C14_DuplicateFrame ==
    [][pc = "duplicate" =>
          LET call == stack'[1]
              last == PosOf(doc, call.end_idx)
              following == Len(doc) - last
          IN  /\ Len(doc') >= Len(doc)
              /\ SubSeq(doc', 1, last) = SubSeq(doc, 1, last)
              /\ SubSeq(doc', Len(doc') - following + 1, Len(doc'))
                    = SubSeq(doc, last + 1, Len(doc))
              /\ call.n_copies = 0 => doc' = doc
      ]_vars

\* Two copies have been inserted into a document with elements before,
\* inside and after the extent
C14_Witness ==
    /\ pc = "resolve"
    /\ stack[1].n_copies = 2
    /\ stack[1].start_idx > 0
    /\ stack[1].before[Len(stack[1].before)] = Para(<<"fin", WS, "{{ENT_ACTIVITY}}">>)
    /\ \E j \in 1..Len(stack[1].before) : stack[1].before[j] = InsideTable
    /\ Len(find_all_activity_blocks(doc, 0, NPar(doc))) = 3

(***************************************************************************)
(* C15.  Duplicated instances are independent.  replace_in_block(start,    *)
(* end, map) changes only the paragraphs start..end and the cells of the   *)
(* tables positioned between those two paragraphs: every other element,    *)
(* and so every sibling instance made by duplicate_block from the same     *)
(* original, is unchanged by the call.                                     *)
(***************************************************************************)
C15_InstancesIndependent ==
    [][pc = "resolve" =>
          LET call == stack'[2]
          IN  /\ Len(doc') = Len(doc)
              /\ \A j \in 1..Len(doc) :
                    (j < PosOf(doc, call.start_idx) \/ j > PosOf(doc, call.end_idx))
                        => doc'[j] = doc[j]
      ]_vars

\* The second of three instances has been resolved: one instance shows the
\* value, the two others keep the placeholder
C15_Witness ==
    /\ pc = "resolved"
    /\ stack[1].n_copies = 2
    /\ stack[2].replacements = <<<<"{{ENT_ACTIVITY}}", <<"Eau potable">>>>>>
    /\ stack[2].start_idx > stack[1].end_idx
    /\ CountText(doc, 0, NPar(doc) - 1, <<"Activite", WS, "Eau potable">>) = 1
    /\ CountText(doc, 0, NPar(doc) - 1, <<"Activite", WS, "{{ENT_ACTIVITY}}">>) = 2

(***************************************************************************)
(* The two locators as functions of the document and the range.  The       *)
(* documents are the sequences of at most MaxParagraphs paragraphs that    *)
(* hold the START marker, the END marker, both, or neither; the range is   *)
(* any range of paragraph indices of the document.  stack holds the call   *)
(* and what the two locators return.                                       *)
(***************************************************************************)
LocateParagraphs ==
    {Para(<<START_POST>>), Para(<<END_POST, WS>>), Para(<<"Poste", WS, "{{POST_TITLE}}">>),
     Para(<<START_POST, WS, END_POST>>)}

LocateDocs == UNION {[1..n -> LocateParagraphs] : n \in 1..MaxParagraphs}

InitLocate ==
    /\ doc \in LocateDocs
    /\ ctx \in CompleteContexts({t \in SmallTrees : ~t.has_lots /\ t.org_acts = Activities},
                                OnePoste)
    /\ tpl = Tpl(FALSE, TRUE, FALSE, FALSE, FALSE, 0)
    /\ pc = "locate"
    /\ stack = <<>>

\* self._find_block_in_range(start, end, parent_start, parent_end) and
\* processor.find_block(start, end) on the same document
Locate ==
    /\ pc = "locate"
    /\ \E parent_start \in 0..(NPar(doc) - 1), parent_end \in 0..(NPar(doc) - 1) :
          /\ parent_start <= parent_end
          /\ stack' = <<[parent_start |-> parent_start, parent_end |-> parent_end,
                         in_range |-> find_block_in_range(doc, START_POST, END_POST,
                                                          parent_start, parent_end),
                         whole |-> find_block(doc, START_POST, END_POST)]>>
    /\ pc' = "located"
    /\ UNCHANGED <<doc, ctx, tpl>>

SpecLocate == InitLocate /\ [][Locate]_vars

(***************************************************************************)
(* C16.  Marker locator.  Both locators return the index of the first      *)
(* START marker of the range with the index of the first END marker that   *)
(* follows it, never an index outside the range, and None when the range   *)
(* holds no complete pair; on the whole-document range they return the     *)
(* same pair.                                                              *)
(***************************************************************************)
\* The least element of a non-empty set of indices
Least(S) == CHOOSE i \in S : \A k \in S : i <= k

\* The first START paragraph of lo..hi and the first END paragraph after it
FirstPair(body, pair, lo, hi) ==
    LET starts == {i \in lo..hi : Contains(ParText(body, i), pair[1])}
        ends == {j \in lo..hi : Contains(ParText(body, j), pair[2]) /\ j > Least(starts)}
    IN  IF starts = {} THEN None
        ELSE IF ends = {} THEN None
        ELSE <<Least(starts), Least(ends)>>

C16_MarkerLocator ==
    pc = "located" =>
        LET call == stack[1]
            last == NPar(doc) - 1
        IN  /\ call.in_range = FirstPair(doc, MarkerPair.POST, call.parent_start,
                                         call.parent_end)
            /\ call.whole = FirstPair(doc, MarkerPair.POST, 0, last)
            /\ call.in_range # None =>
                  /\ call.parent_start <= call.in_range[1]
                  /\ call.in_range[2] <= call.parent_end
            /\ (call.parent_start = 0 /\ call.parent_end = last) =>
                  call.in_range = call.whole

\* The extent of the task designates, in the body, a START and an END
\* marker paragraph of the pair
Designates(body, t, pair) ==
    /\ 0 <= t.bs /\ t.bs < t.be /\ t.be < NPar(body)
    /\ Contains(ParText(body, t.bs), pair[1])
    /\ Contains(ParText(body, t.be), pair[2])

\* The marker pair of the block a pending call or iteration works on
PairOf(t) ==
    CASE t.op \in {"lot_inst", "act_blocks"} -> MarkerPair.LOT
      [] t.op \in {"act_inst", "post_blocks", "act_rest", "entity_charts"} -> MarkerPair.ACTIVITY
      [] t.op = "post_inst" -> MarkerPair.POST
      [] t.op = "other_inst" -> MarkerPair.OTHER_POST

(***************************************************************************)
(* C17.  Extents are never used stale.  The index pair a step of the       *)
(* expansion uses designates, when it is used, the START and END marker    *)
(* paragraphs of its block, or the bounds of the document for the          *)
(* document-scope range: when the step starts, and again when the step     *)
(* uses the pair after a duplication or a table injection of its own.      *)
(***************************************************************************)
\* The extent handed to the step that runs next is the one of its block.
\* (act_rest re-locates its END marker before any use, and
\* _insert_entity_charts does not use the extent it receives.)
ExtentAtStart ==
    LET t == Head(stack)
    IN  CASE t.op = "act_blocks" /\ t.parent = ORG -> t.bs = 0 /\ t.be = NPar(doc)
          [] t.op \in {"act_rest", "entity_charts"} -> TRUE
          [] OTHER -> Designates(doc, t, PairOf(t))

\* The extent used again by the step after its own mutation: the bound of
\* the rescan after the duplication at document scope, the range of the
\* image injection after the table injection in a POST instance
ExtentAfterMutation ==
    LET t == Head(stack)
        code == top_postes(ctx, t.activity)[t.i + 1]
    IN  /\ (t.op = "act_blocks" /\ t.parent = ORG /\ NPar(doc') > NPar(doc))
                => t.be = NPar(doc')
        /\ (t.op = "post_inst"
              /\ \E j \in 1..Len(doc') : doc'[j].pic = <<"post_image", code>>)
                => Designates(doc', t, MarkerPair.POST)

C17_NoStaleExtent ==
    [][(pc = "expand" /\ stack # <<>>) => (ExtentAtStart /\ ExtentAfterMutation)]_vars

(***************************************************************************)
(* C19.  Reverse-order processing.  At every rank the instances found by   *)
(* the rescan are processed from the last to the first, and the extent     *)
(* recorded for an instance still designates its own START and END markers *)
(* when the instance comes to be processed: what is done for the instances *)
(* after it changes no index at or before its END marker.                  *)
(***************************************************************************)
InstanceOps == {"lot_inst", "act_inst", "post_inst", "other_inst"}

\* The pending iterations of the loops, the next one first
PendingInstances == SelectSeq(stack, LAMBDA t : t.op \in InstanceOps)

\* No marker of the pair lies strictly inside the extent of the task
OwnMarkers(body, t, pair) ==
    \A i \in (t.bs + 1)..(t.be - 1) :
        ~Contains(ParText(body, i), pair[1]) /\ ~Contains(ParText(body, i), pair[2])

C19_ReverseOrder ==
    pc = "expand" =>
        /\ \A k \in 1..Len(PendingInstances) :
              LET t == PendingInstances[k]
              IN  Designates(doc, t, PairOf(t)) /\ OwnMarkers(doc, t, PairOf(t))
        /\ \A k \in 1..Len(stack), m \in 1..Len(stack) :
              (k < m /\ stack[k].op \in InstanceOps /\ stack[m].op = stack[k].op
                 /\ stack[m].parent = stack[k].parent
                 /\ stack[m].activity = stack[k].activity)
                  => (stack[m].i < stack[k].i /\ stack[m].be < stack[k].bs)

\* Two POST instances with the table anchor: the table has been injected
\* into the second instance, and the first instance is the next to be
\* processed
C19_Witness ==
    /\ pc = "expand" /\ stack # <<>>
    /\ Head(stack).op = "post_inst" /\ Head(stack).i = 0
    /\ \E j \in 1..Len(doc) : doc[j].kind = "t" /\ doc[j].rows = 2
    /\ \E j \in 1..Len(doc) : doc[j].text = <<"Poste", WS, "A2">>
    /\ \E j \in 1..Len(doc) : doc[j].text = <<"Poste", WS, "{{POST_TITLE}}">>

(***************************************************************************)
(* C18.  Injection is scoped to the instance.  Every chart, table or image *)
(* injected while a POST instance or the entity charts of an ACTIVITY      *)
(* instance are processed replaces an anchor inside the extent of that     *)
(* instance and changes no element outside it; once the expansion is over  *)
(* each ACTIVITY instance shows the entity charts of its own entity.       *)
(***************************************************************************)
\* Body positions from the START paragraph of the task to the first END
\* paragraph of its pair after it
OwnExtent(body, t) ==
    LET ends == {i \in t.bs..(NPar(body) - 1) : Contains(ParText(body, i), PairOf(t)[2])}
    IN  IF ends = {} THEN {}
        ELSE PosOf(body, t.bs)..PosOf(body, Least(ends))

C18_StepScoped ==
    (pc = "expand" /\ stack # <<>> /\ Head(stack).op \in {"post_inst", "entity_charts"}) =>
        /\ Len(doc') = Len(doc)
        /\ \A j \in 1..Len(doc) :
              doc'[j] # doc[j] => j \in OwnExtent(doc, Head(stack))

C18_OwnCharts ==
    Expanded =>
        LET acts == Instances(doc, START_ACTIVITY, END_ACTIVITY)
            ents == Entities(ctx)
        IN  \A k \in 1..Min(Len(acts), Len(ents)) :
                \A i \in acts[k][1]..acts[k][2] :
                    LET pic == doc[PosOf(doc, i)].pic
                    IN  (pic # NoPic /\ pic[1] \in {"scope", "postes"})
                            => <<pic[2], pic[3]>> = ents[k]

C18_InjectionScoped ==
    [][C18_StepScoped /\ (C18_OwnCharts)']_vars

(***************************************************************************)
(* C20.  The orchestrator does not re-partition the postes.  Once the      *)
(* expansion is over, for every aggregate and every top_n of the context,  *)
(* each entry of top_postes has its POST instance and each entry of        *)
(* other_postes its OTHER_POST instance in the ACTIVITY instance of the    *)
(* entity: no poste of either list is missing.  (LOT topology, top_n >= 1.)*)
(***************************************************************************)
C20_NoRepartition ==
    (Expanded /\ WellFormedCase /\ tpl.posts /\ ctx.has_lots /\ ctx.top_n >= 1) =>
        LET acts == Instances(doc, START_ACTIVITY, END_ACTIVITY)
            ents == Entities(ctx)
        IN  \A k \in 1..Min(Len(acts), Len(ents)) :
                LET top == top_postes(ctx, ents[k][2])
                    other == other_postes(ctx, ents[k][2])
                IN  /\ \A j \in 1..Len(top) :
                          CountText(doc, acts[k][1], acts[k][2], PostLine(top[j])) = 1
                    /\ \A j \in 1..Len(other) :
                          CountText(doc, acts[k][1], acts[k][2], OtherPostLine(other[j])) = 1

(***************************************************************************)
(* C21.  Marker recognition is consistent between location and cleanup.    *)
(* A paragraph bounds an extent during the expansion only when its trimmed *)
(* text equals the sentinel, so every paragraph that bounds an extent is   *)
(* one that _clean_all_markers removes.                                    *)
(***************************************************************************)
\* The paragraph i of the body is one that remove_block_markers removes
\* for the marker
IsMarkerParagraph(body, i, marker) == Strip(ParText(body, i)) = <<marker>>

C21_MarkerRecognition ==
    pc = "expand" =>
        \A k \in 1..Len(PendingInstances) :
            LET t == PendingInstances[k]
            IN  /\ IsMarkerParagraph(doc, t.bs, PairOf(t)[1])
                /\ IsMarkerParagraph(doc, t.be, PairOf(t)[2])

(***************************************************************************)
(* C22.  When the construction of the table of a POST instance fails or    *)
(* produces nothing, the section is omitted: the injection adds no table   *)
(* element and no table without rows remains in the document.              *)
(***************************************************************************)
EmptyTables(body) == {j \in 1..Len(body) : body[j].kind = "t" /\ body[j].rows = 0}

C22_FailedTableOmitted ==
    [][(pc = "expand" /\ stack # <<>> /\ Head(stack).op = "post_inst")
        => (EmptyTables(doc') = {}
            /\ (Len(TablePos(doc')) > Len(TablePos(doc))
                => \E j \in 1..Len(doc') : doc'[j] = NewTable(TRUE)))]_vars

(***************************************************************************)
(* C23.  A successful table injection for a POST instance puts the new     *)
(* table at the former position of the anchor paragraph found inside the   *)
(* extent of the instance and deletes the anchor: the table lies between   *)
(* the START and END markers of the instance, the instance holds no anchor *)
(* and one paragraph fewer, and every paragraph before the anchor keeps    *)
(* its index.                                                              *)
(***************************************************************************)
FilledTables(body) == {j \in 1..Len(body) : body[j] = NewTable(TRUE)}

\* Index of the first paragraph of [start_idx, end_idx] that holds the
\* placeholder, NoIdx when there is none
AnchorIdx(body, placeholder, start_idx, end_idx) ==
    LET found == {i \in start_idx..Min(end_idx, NPar(body) - 1) :
                     Contains(ParText(body, i), placeholder)}
    IN  IF found = {} THEN NoIdx ELSE Least(found)

C23_StepInjects ==
    /\ pc = "expand" /\ stack # <<>> /\ Head(stack).op = "post_inst"
    /\ Cardinality(FilledTables(doc')) > Cardinality(FilledTables(doc))

C23_TableAtAnchor ==
    LET t == Head(stack)
        a == AnchorIdx(doc, "{{POST_TABLE_1}}", t.bs, t.be)
        j == PosOf(doc, a)
    IN  /\ a # NoIdx
        /\ FilledTables(doc') = FilledTables(doc) \cup {j}
        /\ Len(doc') = Len(doc)
        /\ NPar(doc') = NPar(doc) - 1
        /\ PosOf(doc', t.bs) < j /\ j < PosOf(doc', t.be - 1)
        /\ Strip(ParText(doc', t.bs)) = <<START_POST>>
        /\ Strip(ParText(doc', t.be - 1)) = <<END_POST>>
        /\ AnchorIdx(doc', "{{POST_TABLE_1}}", t.bs, t.be - 1) = NoIdx
        /\ \A i \in 0..(a - 1) : PosOf(doc', i) = PosOf(doc, i)

C23_TableInjection == [][C23_StepInjects => C23_TableAtAnchor]_vars

C23_Witness ==
    /\ pc = "expand"
    /\ \E j \in FilledTables(doc) :
          \E k \in 1..(j - 1) :
              /\ doc[k].kind = "p" /\ Strip(doc[k].text) = <<START_POST>>
              /\ \A m \in (k + 1)..(j - 1) : doc[m].kind = "p" /\ Strip(doc[m].text) # <<END_POST>>

(***************************************************************************)
(* C24.  When the content catalog gives no applicable chart, table or      *)
(* image key for a poste and activity (no catalog, no entry, or an empty   *)
(* key), _insert_post_content leaves the document unchanged, and the       *)
(* anchor paragraphs of the POST instance are removed by the final         *)
(* cleanup.                                                                *)
(***************************************************************************)
PostAnchors == {"{{POST_CHART_1}}", "{{POST_TABLE_1}}", "{{POST_IMAGE_1}}"}

NoContentKey == ~HasChartKey(ctx) /\ ~HasTableKey(ctx) /\ ~HasImageKey(ctx)

\* The paragraphs of the body whose text is an anchor
AnchorParagraphs(body) ==
    {i \in 0..(NPar(body) - 1) : \E a \in PostAnchors : ParText(body, i) = <<a>>}

\* The step of a POST instance changes nothing but the resolved text
C24_StepUnchanged ==
    (pc = "expand" /\ stack # <<>> /\ Head(stack).op = "post_inst" /\ NoContentKey)
        => LET t == Head(stack)
               code == top_postes(ctx, t.activity)[t.i + 1]
           IN  /\ doc' = replace_in_block(doc, t.bs, t.be, post_replacements(ctx, code))
               /\ AnchorParagraphs(doc') = AnchorParagraphs(doc)
               /\ \A j \in 1..Len(doc) : doc'[j].kind = doc[j].kind /\ doc'[j].pic = doc[j].pic

C24_CleanupRemoves ==
    (pc = "clean_placeholders" /\ pc' = "done" /\ NoContentKey)
        => AnchorParagraphs(doc') = {}

C24_NoContent == [][C24_StepUnchanged /\ C24_CleanupRemoves]_vars

\* A resolved POST instance still holds its three anchors when the final
\* cleanup starts
C24_Witness ==
    /\ pc = "clean_placeholders" /\ NoContentKey /\ tpl.anchors
    /\ \E i \in 0..(NPar(doc) - 5) :
          /\ ParText(doc, i) = PostLine("A1")
          /\ ParText(doc, i + 2) = <<"{{POST_CHART_1}}">>
          /\ ParText(doc, i + 3) = <<"{{POST_TABLE_1}}">>
          /\ ParText(doc, i + 4) = <<"{{POST_IMAGE_1}}">>

(***************************************************************************)
(* C25.  render() performs its steps in this order, each once: document-   *)
(* global placeholder resolution, block expansion of every rank, document- *)
(* wide marker cleanup, document-level chart injection, orphan-placeholder *)
(* cleanup.  The marker cleanup does not start before every rank is fully  *)
(* expanded, and no injection follows the orphan-placeholder cleanup.      *)
(***************************************************************************)
Phase(p) ==
    CASE p = "simple" -> 1
      [] p = "logo" -> 2
      [] p \in {"lots", "expand"} -> 3
      [] p = "clean_markers" -> 4
      [] p = "org_charts" -> 5
      [] p = "clean_placeholders" -> 6
      [] OTHER -> 7

\* The paragraphs that are exactly a marker
MarkerParagraphs(body) ==
    {i \in 0..(NPar(body) - 1) : \E m \in Markers : IsMarkerParagraph(body, i, m)}

\* The pictures and tables of the body
Injected(body) ==
    Cardinality({j \in 1..Len(body) : body[j].pic # NoPic \/ body[j].kind = "t"})

C25_StepOrder ==
    /\ Phase(pc') = Phase(pc) + 1 \/ pc' = "raised" \/ (Phase(pc) = 3 /\ Phase(pc') = 3)
    /\ pc # "expand" => pc' # pc
    /\ pc = "clean_markers" => stack = <<>> /\ MarkerParagraphs(doc') = {}
    /\ Cardinality(MarkerParagraphs(doc')) < Cardinality(MarkerParagraphs(doc))
          => Phase(pc) \in {3, 4}
    /\ Phase(pc) < 3 => stack' = <<>>
    /\ Phase(pc) > 3 => stack' = <<>>
    /\ Injected(doc') # Injected(doc) => Phase(pc) < 6
    /\ pc = "clean_placeholders" => pc' = "done" /\ doc' = clean_empty_placeholders(doc)

C26_CleanupsCommute ==
    /\ clean_empty_placeholders(clean_all_markers(doc))
          = clean_all_markers(clean_empty_placeholders(doc))
    /\ \A i \in MarkerParagraphs(doc) : ~MatchesBarePlaceholder(Strip(ParText(doc, i)))

\* Both passes have something to remove when the marker cleanup starts
C26_Witness ==
    /\ pc = "clean_markers"
    /\ clean_all_markers(doc) # doc
    /\ clean_empty_placeholders(doc) # doc
    /\ clean_empty_placeholders(clean_all_markers(doc)) # clean_all_markers(doc)

(***************************************************************************)
(* The aggregation of the emissions of a perimeter                         *)
(* (EmissionCalculator._aggregate_emissions).  ctx holds the inputs of the *)
(* call, stack the EmissionResult it returns.                              *)
(*   emissions  for every poste L1 the rows of emissions_df, each a        *)
(*              <<node_id, tco2e>> pair                                    *)
(*   ent_ids    the ENT of the perimeter                                   *)
(*   overrides  poste_config: a record for the configured postes           *)
(***************************************************************************)
\* The postes L1 of the emissions, in the order of their codes
AggregatedCodes == SubSeq(PosteCodes["AEP"], 1, MaxPostes)

CodeSet == {AggregatedCodes[k] : k \in 1..Len(AggregatedCodes)}

\* EmissionOverrides.is_poste_shown
is_poste_shown(overrides, code) ==
    IF code \in DOMAIN overrides THEN overrides[code].show_in_report ELSE TRUE

\* EmissionOverrides.is_poste_included
is_poste_included(overrides, code) ==
    IF code \in DOMAIN overrides THEN overrides[code].include_in_totals ELSE TRUE

RECURSIVE SumRows(_)
SumRows(rows) == IF rows = <<>> THEN 0 ELSE Head(rows)[2] + SumRows(Tail(rows))

\* emissions_df[mask] for the poste: the rows of the ENT of the perimeter
MaskedRows(emissions, ent_ids, code) ==
    SelectSeq(emissions[code], LAMBDA row : row[1] \in ent_ids)

\* emissions_for_totals.groupby('poste_l1_code')['tco2e'].sum().to_dict():
\* the included postes that have a row, in the order of their codes
emissions_by_poste(emissions, ent_ids, overrides) ==
    LET kept == SelectSeq(AggregatedCodes, LAMBDA code :
                    /\ is_poste_included(overrides, code)
                    /\ MaskedRows(emissions, ent_ids, code) # <<>>)
    IN  [k \in 1..Len(kept) |-> <<kept[k], SumRows(MaskedRows(emissions, ent_ids, kept[k]))>>]

\* sorted(items, key=lambda x: x[1], reverse=True): stable, the items of equal
\* value keep their order
RECURSIVE SortedByValue(_)
SortedByValue(items) ==
    IF items = <<>> THEN <<>>
    ELSE LET rest == SortedByValue(SubSeq(items, 1, Len(items) - 1))
             item == items[Len(items)]
             before == SelectSeq(rest, LAMBDA x : x[2] >= item[2])
             after == SelectSeq(rest, LAMBDA x : x[2] < item[2])
         IN  before \o <<item>> \o after

EmissionResult(total, by_poste, top, other) ==
    [total_tco2e |-> total, emissions_by_poste |-> by_poste,
     top_postes |-> top, other_postes |-> other]

\* EmissionCalculator._aggregate_emissions
aggregate_emissions(emissions, ent_ids, overrides, top_n) ==
    LET by_poste == emissions_by_poste(emissions, ent_ids, overrides)
        sorted_postes == SelectSeq(SortedByValue(by_poste),
                                   LAMBDA x : is_poste_shown(overrides, x[1]))
        cut == Min(top_n, Len(sorted_postes))
    IN  IF ent_ids = {} THEN EmissionResult(0, <<>>, <<>>, <<>>)
        ELSE EmissionResult(SumRows(by_poste), by_poste,
                            SubSeq(sorted_postes, 1, cut),
                            SubSeq(sorted_postes, cut + 1, Len(sorted_postes)))

\* The rows of a poste: none, one row, a larger row, two rows of two ENT
PosteRows == {<<>>, <<<<1, 1>>>>, <<<<1, 2>>>>, <<<<1, 1>>, <<2, 1>>>>}

\* poste_config of a poste: hidden and kept in the totals, hidden and
\* excluded, shown and excluded
PosteConfigs ==
    {[show_in_report |-> FALSE, include_in_totals |-> TRUE],
     [show_in_report |-> FALSE, include_in_totals |-> FALSE],
     [show_in_report |-> TRUE, include_in_totals |-> FALSE]}

OverridesConfigurations == UNION {[codes -> PosteConfigs] : codes \in SUBSET CodeSet}

InitAggregate ==
    /\ \E emissions \in [CodeSet -> PosteRows], ent_ids \in {{}, {1}, {1, 2}},
          overrides \in OverridesConfigurations, top_n \in 0..MaxPostes :
          ctx = [emissions |-> emissions, ent_ids |-> ent_ids,
                 overrides |-> overrides, top_n |-> top_n]
    /\ doc = <<>>
    /\ tpl = Tpl(FALSE, FALSE, FALSE, FALSE, FALSE, 0)
    /\ pc = "aggregate"
    /\ stack = <<>>

Aggregate ==
    /\ pc = "aggregate"
    /\ stack' = <<aggregate_emissions(ctx.emissions, ctx.ent_ids, ctx.overrides, ctx.top_n)>>
    /\ pc' = "aggregated"
    /\ UNCHANGED <<doc, ctx, tpl>>

SpecAggregate == InitAggregate /\ [][Aggregate]_vars

(***************************************************************************)
(* C27.  Aggregation partition: for every set of emissions, every          *)
(* overrides configuration and every top_n >= 0, top_postes followed by    *)
(* other_postes is the list of the shown postes in non-increasing order of *)
(* emissions, the two lists share no poste, top_postes has min(top_n,      *)
(* number of shown postes) entries, and every value of top_postes is at    *)
(* least every value of other_postes.                                      *)
(***************************************************************************)
\* The postes of the perimeter that the overrides show
ShownPostes ==
    {code \in CodeSet : /\ MaskedRows(ctx.emissions, ctx.ent_ids, code) # <<>>
                        /\ is_poste_shown(ctx.overrides, code)}

C27_AggregationPartition ==
    pc = "aggregated" =>
        LET top == stack[1].top_postes
            other == stack[1].other_postes
            all == top \o other
        IN  /\ {all[k][1] : k \in 1..Len(all)} = ShownPostes
            /\ Len(all) = Cardinality(ShownPostes)
            /\ \A k \in 1..Len(all) :
                  all[k][2] = SumRows(MaskedRows(ctx.emissions, ctx.ent_ids, all[k][1]))
            /\ \A k \in 1..(Len(all) - 1) : all[k][2] >= all[k + 1][2]
            /\ Len(top) = Min(ctx.top_n, Cardinality(ShownPostes))
            /\ \A i \in 1..Len(top), j \in 1..Len(other) :
                  top[i][1] # other[j][1] /\ top[i][2] >= other[j][2]

(***************************************************************************)
(* The context the application builds for the renderer                     *)
(* (EmissionCalculator._calculate, then generate_report of app_V2.py).     *)
(* ctx holds the tree, stack the results of the calculator and then the    *)
(* context.  A key is the sequence of the parts that the code joins with   *)
(* '_'.                                                                    *)
(***************************************************************************)
\* The trees of OrganizationTree: has_lots() is len(get_lots()) > 0
BuiltTrees == {t \in Trees : t.has_lots <=> Len(t.lot_acts) > 0}

\* EmissionCalculator._calculate: the keys of the results
calculate(tree) ==
    {<<"ORG">>}
    \cup (IF tree.has_lots
          THEN UNION {{<<"LOT", l, a>> : a \in tree.lot_acts[l]} : l \in 1..Len(tree.lot_acts)}
          ELSE {<<"ORG", a>> : a \in tree.org_acts})

\* generate_report: the entries 'org_result', 'lot_results' and 'has_lots'
\* of the context; lot_results keeps the keys k with k.startswith('LOT_')
generate_report_context(tree, results) ==
    [org_result |-> <<"ORG">> \in results,
     lot_results |-> {k \in results : Len(k) > 1 /\ k[1] = "LOT"},
     has_lots |-> tree.has_lots]

\* The keys that _process_activity_blocks looks up in lot_results
entity_keys(tree, context) ==
    IF context.has_lots
    THEN UNION {{<<"LOT", l, a>> : a \in tree.lot_acts[l]} : l \in 1..Len(tree.lot_acts)}
    ELSE {<<"ORG", a>> : a \in tree.org_acts}

InitContext ==
    /\ \E tree \in BuiltTrees : ctx = [tree |-> tree]
    /\ doc = <<>>
    /\ tpl = Tpl(FALSE, FALSE, FALSE, FALSE, FALSE, 0)
    /\ pc = "calculate"
    /\ stack = <<>>

Calculate ==
    /\ pc = "calculate"
    /\ stack' = <<calculate(ctx.tree)>>
    /\ pc' = "report"
    /\ UNCHANGED <<doc, ctx, tpl>>

GenerateReport ==
    /\ pc = "report"
    /\ stack' = stack \o <<generate_report_context(ctx.tree, stack[1])>>
    /\ pc' = "context"
    /\ UNCHANGED <<doc, ctx, tpl>>

NextContext == Calculate \/ GenerateReport

SpecContext == InitContext /\ [][NextContext]_vars

(***************************************************************************)
(* C28.  The context built by the application gives the renderer, in       *)
(* lot_results, an aggregate for every (group, activity) key the           *)
(* orchestrator looks up: LOT_<lot id>_<activity> for each activity of     *)
(* each LOT when LOTs exist, ORG_<activity> for each activity of the       *)
(* organisation when there is no LOT level.                                *)
(***************************************************************************)
C28_ContextComplete ==
    pc = "context" => entity_keys(ctx.tree, stack[2]) \subseteq stack[2].lot_results

(***************************************************************************)
(* C29.  Expansion is deterministic in the order of the ACTIVITY           *)
(* instances: in every parent (a LOT instance, or the document in flat     *)
(* topology) the ACTIVITY instances appear in ascending order of activity  *)
(* code, AEP before EU, each activity once.                                *)
(***************************************************************************)
\* The activities of the resolved ACTIVITY instances of the paragraphs
\* lo..hi, in document order
ActivityOrder(body, lo, hi) ==
    LET lines == SelectSeq([k \in 1..(hi - lo + 1) |-> lo + k - 1],
                           LAMBDA i : \E a \in Activities : ParText(body, i) = ActivityLine(a))
    IN  [k \in 1..Len(lines) |-> CHOOSE a \in Activities : ParText(body, lines[k]) = ActivityLine(a)]

\* The extents of the parents: the paragraphs up to each END_LOT marker, or
\* the whole document in flat topology
ParentExtents(body) ==
    LET ends == MarkerIdx(body, END_LOT)
    IN  IF ctx.has_lots
        THEN [k \in 1..Len(ends) |-> <<IF k = 1 THEN 0 ELSE ends[k - 1] + 1, ends[k]>>]
        ELSE <<<<0, NPar(body) - 1>>>>

Ascending(order) ==
    order \in {<<>>, <<"AEP">>, <<"EU">>, <<"AEP", "EU">>}

C29_ActivityOrder ==
    Expanded =>
        LET parents == ParentExtents(doc)
        IN  \A k \in 1..Len(parents) :
                LET order == ActivityOrder(doc, parents[k][1], parents[k][2])
                IN  /\ Ascending(order)
                    /\ (ctx.has_lots /\ k <= Len(ctx.lot_acts))
                          => \A n \in 1..Len(order) : order[n] \in ctx.lot_acts[k]
                    /\ ~ctx.has_lots => \A n \in 1..Len(order) : order[n] \in ctx.org_acts

C29_Witness ==
    /\ Expanded /\ ctx.has_lots
    /\ \E k \in 1..Len(ParentExtents(doc)) :
          ActivityOrder(doc, ParentExtents(doc)[k][1], ParentExtents(doc)[k][2]) = <<"AEP", "EU">>

(***************************************************************************)
(* render() as sequential code: a step that can be taken is taken, so the  *)
(* steps of Next are weakly fair.  The runs start from the templates of    *)
(* every structure with up to two LOTs, from the hand-built contexts and   *)
(* from the contexts with a content catalog.                               *)
(***************************************************************************)
InitLive ==
    Start((StructureTemplates
              \X CompleteContexts({t \in Trees : Len(t.lot_acts) < MaxLots}, OnePoste))
          \cup ({t \in StructureTemplates : t.posts} \X PartialContexts(SmallTrees, OnePoste))
          \cup (AnchorTemplates \X CatalogContexts(SmallTrees, OnePoste)))

SpecLive == InitLive /\ [][Next]_vars /\ WF_vars(Next)

(***************************************************************************)
(* C30.  render() terminates for every finite template and context: each   *)
(* rescan loop moves its cursor strictly past the END marker of the block  *)
(* it has just found or stops, every per-rank processing loop runs a       *)
(* number of iterations bounded by the size of its repetition context, and *)
(* every run reaches the end of render() (or the exception that leaves     *)
(* it).                                                                    *)
(***************************************************************************)
\* The blocks of a rescan lie one after the other
CursorAdvances(body, blocks) ==
    /\ \A k \in 1..Len(blocks) : blocks[k][1] < blocks[k][2]
    /\ \A k \in 1..(Len(blocks) - 1) : blocks[k][2] < blocks[k + 1][1]
    /\ Len(blocks) <= NPar(body)

RescansAdvance(body) ==
    /\ CursorAdvances(body, find_all_lot_blocks(body))
    /\ CursorAdvances(body, find_all_activity_blocks(body, 0, NPar(body)))
    /\ CursorAdvances(body, find_all_post_blocks(body, 0, NPar(body)))
    /\ CursorAdvances(body, find_all_other_post_blocks(body, 0, NPar(body)))

\* Number of pending iterations of a processing loop
Pending(st, op) == Len(SelectSeq(st, LAMBDA t : t.op = op))

\* The iterations a step schedules are bounded by its repetition context
LoopsBounded ==
    /\ pc = "lots" => Pending(stack', "lot_inst") <= Len(ctx.lot_acts)
    /\ (pc = "expand" /\ stack # <<>>) =>
          LET t == Head(stack)
          IN  /\ t.op = "act_blocks" =>
                    Pending(stack', "act_inst") - Pending(stack, "act_inst")
                        <= Cardinality(ParentActivities(ctx, t.parent))
              /\ t.op = "post_blocks" =>
                    Pending(stack', "post_inst") - Pending(stack, "post_inst")
                        <= Len(top_postes(ctx, t.activity))
              /\ t.op = "act_rest" =>
                    Pending(stack', "other_inst") - Pending(stack, "other_inst")
                        <= Len(other_postes(ctx, t.activity))
              /\ t.op \in InstanceOps => Len(stack') <= Len(stack) + 2

C30_Terminates ==
    /\ [][LoopsBounded /\ RescansAdvance(doc')]_vars
    /\ <>(pc \in {"done", "raised"})

C30_Witness ==
    /\ Rendered
    /\ tpl.lot /\ tpl.posts
    /\ Len(ctx.lot_acts) = MaxLots - 1
    /\ ctx.lot_acts[MaxLots - 1] = Activities
    /\ \E i \in 0..(NPar(doc) - 1) : ParText(doc, i) = LotLine(MaxLots - 1)

=============================================================================
